---- MODULE Spec2Model ----
(***************************************************************************)
(* Control-plane core of TheWorkshop: the on-disk job graph (project ->    *)
(* workstreams -> jobs), the lifecycle commands job_start / job_complete,  *)
(* the gating engine (reward_eval, truth_eval, plan_check), the snapshot / *)
(* invalidation engine (input_snapshot, invalidate_downstream), the status *)
(* rollup (plan_sync) and the loop executor (loop_job).                    *)
(*                                                                         *)
(* The document store is one record, `store`, whose fields are the         *)
(* frontmatter keys of the plan.md files plus the artifact files the       *)
(* commands read.  Every script is an operator from store to store, so a   *)
(* command that shells out to other scripts is the composition of their    *)
(* operators, in the order of the source.                                  *)
(***************************************************************************)
EXTENDS Integers, Sequences, FiniteSets, TLC

VARIABLES store, loop, orch

vars == <<store, loop, orch>>

(***************************************************************************)
(* Bounds of the model.                                                    *)
(***************************************************************************)
\* how many times one output file can be (re)written
MaxVer == 2
\* cap of the job attempt counter `iteration`
MaxIter == 3
\* how many runner invocations of one loop run the model follows
MaxInvocations == 2
\* how many dependency overrides the decision log can hold
MaxOverrides == 1
\* how many loop_job processes are followed
MaxRuns == 1

\* loop_job processes run on a job after the first ones
MaxReruns == 1

(***************************************************************************)
(* The project under control: three jobs spread over two workstreams, in a *)
(* dependency chain A <- B <- C unless a specification says otherwise.     *)
(***************************************************************************)
Jobs == {"A", "B", "C"}

WsIds == {"WS1", "WS2"}

WsJobs == ("WS1" :> {"A", "B"}) @@ ("WS2" :> {"C"})

\* the depends_on lists of the job plans, written by job_add and never changed
depends_on == store.depends_on

STATUS_VALUES == {"planned", "in_progress", "blocked", "done", "cancelled"}

\* stakes_defaults("low") = (reward_target 70, max_iterations 2)
reward_target == 70

max_iterations == 2

NoneVal == -1


\* order in which the scripts enumerate job directories (sorted ids)
JobOrder == <<"A", "B", "C">>

(***************************************************************************)
(* Artifact files.  An output file is absent, empty or full, and `ver`     *)
(* counts its writes: content hash and modification time change with       *)
(* every write.  Evidence (artifacts/verification.md) is absent, `bad`     *)
(* (non-empty, with a contradiction marker) or `ok`, and `fresh` says it   *)
(* is at least as new as the job's outputs.                                *)
(***************************************************************************)
AbsentFile == [kind |-> "absent", ver |-> 0]

AbsentEvidence == [kind |-> "absent", fresh |-> FALSE]

EmptySha == 100

\* output_fingerprint / make_current_input_entries: exists, sha256, mtime, size
output_fingerprint(f) ==
  IF f.kind = "absent"
    THEN [exists |-> FALSE, sha256 |-> 0, mtime |-> NoneVal, size_bytes |-> NoneVal]
    ELSE [exists |-> TRUE,
          sha256 |-> IF f.kind = "empty" THEN EmptySha ELSE f.ver,
          mtime |-> f.ver,
          size_bytes |-> IF f.kind = "empty" THEN 0 ELSE 1]

file_exists_nonempty(f) == f.kind = "full"

evidence_exists_nonempty(e) == e.kind # "absent"

NoSnapshot == [present |-> FALSE, entries |-> <<>>]

\* index of a job in the sorted listing
JobIndex(j) == CHOOSE i \in 1..Len(JobOrder) : JobOrder[i] = j

\* the first job of a non-empty set, in sorted order
FirstJob(S) == CHOOSE j \in S : \A k \in S : JobIndex(j) <= JobIndex(k)

(***************************************************************************)
(* plan_sync.py: status rollup and its write-back.                         *)
(***************************************************************************)
\* a rollup that is done only when every child is done
rollup_status_all_done(states) ==
  IF "in_progress" \in states THEN "in_progress"
  ELSE IF "blocked" \in states THEN "blocked"
  ELSE IF states # {} /\ states \subseteq {"done"} THEN "done"
  ELSE "planned"

rollup_status(states) ==
  IF "in_progress" \in states THEN "in_progress"
  ELSE IF "blocked" \in states THEN "blocked"
  ELSE IF states # {} /\ states \subseteq {"done", "cancelled"} THEN "done"
  ELSE "planned"

workstream_rollup(s, ws) ==
  IF WsJobs[ws] = {} THEN "planned"
  ELSE rollup_status({s.status[j] : j \in WsJobs[ws]})

project_rollup(ws_status) ==
  IF WsIds = {} THEN "planned"
  ELSE rollup_status({ws_status[w] : w \in WsIds})

\* apply_rollup_transition on completed_at: stamped once when done, else cleared
rollup_completed_at(old, new_status) ==
  IF new_status = "done" THEN TRUE ELSE FALSE

\* the write-back of the rollups ws_new and proj_new
write_rollups(s, ws_new, proj_new) ==
  [s EXCEPT !.ws_status = ws_new,
            !.ws_completed_at =
                [w \in WsIds |-> rollup_completed_at(s.ws_completed_at[w], ws_new[w])],
            !.proj_status = proj_new,
            !.proj_completed_at = rollup_completed_at(s.proj_completed_at, proj_new)]

\* a sync that rolls the project up from the workstream statuses stored before
write_workstream_rollups_from_stored(s, ws_new) ==
  write_rollups(s, ws_new, project_rollup(s.ws_status))

write_workstream_rollups(s, ws_new) == write_rollups(s, ws_new, project_rollup(ws_new))

sync_project_plans(s) ==
  write_workstream_rollups(s, [w \in WsIds |-> workstream_rollup(s, w)])

\* every command syncs last, unless it was given --no-sync
sync_unless(s, no_sync) == IF no_sync THEN s ELSE sync_project_plans(s)

(***************************************************************************)
(* plan_check.py: the consistency check's own rollup and mismatch test.    *)
(***************************************************************************)
plan_check_rollup_status(states) ==
  IF \E x \in states : x = "in_progress" THEN "in_progress"
  ELSE IF \E x \in states : x = "blocked" THEN "blocked"
  ELSE IF states # {} /\ \A x \in states : x \in {"done", "cancelled"} THEN "done"
  ELSE "planned"

\* plan_check.py 246-261: stored status differs from the computed rollup
rollup_mismatch(s) ==
  \/ \E w \in WsIds :
       s.ws_status[w] # plan_check_rollup_status({s.status[j] : j \in WsJobs[w]})
  \/ s.proj_status # plan_check_rollup_status({s.ws_status[w] : w \in WsIds})

(***************************************************************************)
(* input_snapshot.py and invalidate_downstream.py: the snapshot engine.    *)
(***************************************************************************)
\* a snapshot that records no content hash
input_snapshot_without_hash(s, j) ==
  [s EXCEPT !.snapshot[j] =
                [present |-> TRUE,
                 entries |-> [d \in depends_on[j] |->
                                [output_fingerprint(s.out[d]) EXCEPT !.sha256 = 0]]],
            !.truth_input_snapshot[j] = TRUE]

\* input_snapshot.py main: fingerprint every declared output of every dependency
input_snapshot(s, j) ==
  [s EXCEPT !.snapshot[j] =
                [present |-> TRUE,
                 entries |-> [d \in depends_on[j] |-> output_fingerprint(s.out[d])]],
            !.truth_input_snapshot[j] = TRUE]

make_current_input_entries(s, j) ==
  [d \in depends_on[j] |-> output_fingerprint(s.out[d])]

\* normalize_snapshot_entries: a pointer to a missing file yields no entries
normalize_snapshot_entries(snap) ==
  IF snap.present THEN snap.entries ELSE <<>>

\* compare_snapshot: <<matches, reason>>
compare_snapshot(current, snap) ==
  LET stored == normalize_snapshot_entries(snap)
      cur_keys == DOMAIN current
      sto_keys == DOMAIN stored
      diff == {k \in cur_keys : \/ current[k].exists # stored[k].exists
                                \/ current[k].sha256 # stored[k].sha256
                                \/ current[k].mtime # stored[k].mtime}
  IN IF sto_keys = {} /\ cur_keys = {} THEN <<TRUE, "">>
     ELSE IF sto_keys = {} THEN <<FALSE, "truth_input_snapshot has no comparable entries">>
     ELSE IF cur_keys # sto_keys THEN <<FALSE, "input key set changed">>
     ELSE IF diff = {} THEN <<TRUE, "">>
     ELSE LET k == FirstJob(diff)
          IN IF current[k].exists # stored[k].exists THEN <<FALSE, "exists changed">>
             ELSE IF current[k].sha256 # stored[k].sha256 THEN <<FALSE, "hash changed">>
             ELSE <<FALSE, "mtime changed">>

\* build_reverse_deps
build_reverse_deps(d) == {j \in Jobs : d \in depends_on[j]}

RECURSIVE closure_from(_, _)
closure_from(frontier, seen) ==
  LET nxt == {j \in Jobs : \E d \in frontier : j \in build_reverse_deps(d)} \ seen
  IN IF nxt = {} THEN seen ELSE closure_from(nxt, seen \cup nxt)

\* downstream_closure: every direct or indirect dependent, the start excluded
downstream_closure(start_wi) == closure_from({start_wi}, {start_wi}) \ {start_wi}

\* a scan that does not skip the jobs that are not done
invalidate_one_any_status(s, wi) ==
  IF ~s.truth_input_snapshot[wi] THEN "skipped"
  ELSE IF compare_snapshot(make_current_input_entries(s, wi), s.snapshot[wi])[1] THEN "fresh"
  ELSE "stale"

\* invalidate_downstream.py main, lines 349-389, for one scoped job
invalidate_one(s, wi) ==
  IF s.status[wi] # "done" THEN "skipped"
  ELSE IF ~s.truth_input_snapshot[wi] THEN "skipped"
  ELSE IF compare_snapshot(make_current_input_entries(s, wi), s.snapshot[wi])[1] THEN "fresh"
  ELSE "stale"

stale_jobs(s, scoped) == {wi \in scoped : invalidate_one(s, wi) = "stale"}

\* a stale job is blocked but keeps its completed_at
mark_stale_keeping_completed_at(s, stale) ==
  [s EXCEPT
     !.status = [j \in Jobs |-> IF j \in stale THEN "blocked" ELSE s.status[j]],
     !.truth_last_status =
         [j \in Jobs |-> IF j \in stale THEN "fail" ELSE s.truth_last_status[j]],
     !.truth_last_failures =
         [j \in Jobs |->
            IF j \in stale
              THEN << <<"freshness_inputs",
                        compare_snapshot(make_current_input_entries(s, j), s.snapshot[j])[2]>> >>
              ELSE s.truth_last_failures[j]],
     !.progress_log =
         [j \in Jobs |-> IF j \in stale THEN "invalidate_downstream: done -> blocked"
                                         ELSE s.progress_log[j]]]

\* invalidate_downstream.py main, lines 359-389: every stale job is un-completed
mark_stale(s, stale) ==
  [s EXCEPT
     !.status = [j \in Jobs |-> IF j \in stale THEN "blocked" ELSE s.status[j]],
     !.completed_at = [j \in Jobs |-> IF j \in stale THEN FALSE ELSE s.completed_at[j]],
     !.truth_last_status =
         [j \in Jobs |-> IF j \in stale THEN "fail" ELSE s.truth_last_status[j]],
     !.truth_last_failures =
         [j \in Jobs |->
            IF j \in stale
              THEN << <<"freshness_inputs",
                        compare_snapshot(make_current_input_entries(s, j), s.snapshot[j])[2]>> >>
              ELSE s.truth_last_failures[j]],
     !.progress_log =
         [j \in Jobs |-> IF j \in stale THEN "invalidate_downstream: done -> blocked"
                                         ELSE s.progress_log[j]]]

\* lines 412-414: the sync runs only when something was staled
invalidate_stale(s, stale, no_sync) ==
  IF stale # {} /\ ~no_sync THEN sync_project_plans(mark_stale(s, stale))
  ELSE mark_stale(s, stale)

\* invalidate_downstream.py main; scope is a job id or "all"
invalidate_downstream(s, scope, no_sync) ==
  invalidate_stale(
    s, stale_jobs(s, IF scope = "all" THEN Jobs ELSE downstream_closure(scope)), no_sync)

(***************************************************************************)
(* truth_eval.py: the truth gate.                                          *)
(***************************************************************************)
\* _read_input_snapshot: <<ok, detail>> for the first failing entry
read_input_snapshot(s, j) ==
  LET snap == s.snapshot[j]
      entries == snap.entries
      bad(d) == LET cur == output_fingerprint(s.out[d])
                    item == entries[d]
                IN \/ ~cur.exists
                   \/ item.size_bytes # NoneVal /\ cur.size_bytes # item.size_bytes
                   \/ item.mtime # NoneVal /\ cur.mtime # item.mtime
                   \/ item.sha256 # 0 /\ cur.sha256 # item.sha256
      failing == {d \in DOMAIN entries : bad(d)}
  IN IF ~snap.present THEN <<FALSE, "missing input snapshot">>
     ELSE IF DOMAIN entries = {} THEN <<FALSE, "input snapshot has no comparable entries">>
     ELSE IF failing = {} THEN <<TRUE, "input snapshot matches dependency outputs">>
     ELSE LET d == FirstJob(failing)
              cur == output_fingerprint(s.out[d])
              item == entries[d]
          IN IF ~cur.exists THEN <<FALSE, "snapshot input missing now">>
             ELSE IF item.size_bytes # NoneVal /\ cur.size_bytes # item.size_bytes
               THEN <<FALSE, "snapshot stale (size changed)">>
             ELSE IF item.mtime # NoneVal /\ cur.mtime # item.mtime
               THEN <<FALSE, "snapshot stale (mtime changed)">>
             ELSE <<FALSE, "snapshot stale (hash changed)">>

\* evaluate_job_truth: the default four checks, in the order they run
check_exists_nonempty(s, j) ==
  IF file_exists_nonempty(s.out[j]) /\ evidence_exists_nonempty(s.evid[j])
    THEN <<>>
    ELSE << <<"exists_nonempty", "missing/empty files">> >>

check_freshness(s, j) ==
  IF file_exists_nonempty(s.out[j]) /\ evidence_exists_nonempty(s.evid[j])
     /\ ~s.evid[j].fresh
    THEN << <<"freshness", "verification evidence is older than outputs">> >>
    ELSE <<>>

freshness_inputs_failure(has_deps, verdict) ==
  IF has_deps /\ ~verdict[1] THEN << <<"freshness_inputs", verdict[2]>> >> ELSE <<>>

check_freshness_inputs(s, j) ==
  freshness_inputs_failure(depends_on[j] # {}, read_input_snapshot(s, j))

check_verification_consistency(s, j) ==
  IF s.evid[j].kind = "ok" THEN <<>>
  ELSE IF s.evid[j].kind = "bad"
    THEN << <<"verification_consistency", "contains contradiction marker">> >>
  ELSE << <<"verification_consistency", "missing verification file">> >>

\* the checks that truth_checks selects (the default four when it is empty), in
\* the order they run; required_command_logged has no pattern to look for
truth_failures(s, j) ==
  LET checks == IF s.truth_checks[j] = {}
                  THEN {"exists_nonempty", "freshness", "required_command_logged",
                        "verification_consistency"}
                  ELSE s.truth_checks[j]
  IN (IF "exists_nonempty" \in checks THEN check_exists_nonempty(s, j) ELSE <<>>)
     \o (IF "freshness" \in checks
           THEN check_freshness(s, j) \o check_freshness_inputs(s, j) ELSE <<>>)
     \o (IF "verification_consistency" \in checks
           THEN check_verification_consistency(s, j) ELSE <<>>)

\* a verdict that runs the checks whatever the truth mode
truth_verdict_ignoring_mode(truth_mode, failures) ==
  [truth_status |-> IF failures = <<>> THEN "pass" ELSE "fail", failures |-> failures]

truth_verdict(truth_mode, failures) ==
  IF truth_mode = "off"
    THEN [truth_status |-> "pass", failures |-> <<>>]
    ELSE [truth_status |-> IF failures = <<>> THEN "pass" ELSE "fail",
          failures |-> failures]

evaluate_job_truth(s, j) == truth_verdict(s.truth_mode[j], truth_failures(s, j))

\* the truth fields of every job, from the verdicts
write_truth(s, verdicts) ==
  [s EXCEPT !.truth_last_status = [j \in Jobs |-> verdicts[j].truth_status],
            !.truth_last_failures = [j \in Jobs |-> verdicts[j].failures]]

\* truth_eval.py main: every job's truth fields are rewritten
truth_eval(s) ==
  [write_truth(s, [j \in Jobs |-> evaluate_job_truth(s, j)])
     EXCEPT !.truth_input_snapshot = [j \in Jobs |-> TRUE]]

(***************************************************************************)
(* reward_eval.py: the reward gate.  `textual` stands for the components   *)
(* read from the plan text and the project's logs and reports; the         *)
(* components that depend on artifacts and on the job's state are          *)
(* computed as the source does.                                            *)
(***************************************************************************)
Clamp(lo, hi, x) == IF x < lo THEN lo ELSE IF x > hi THEN hi ELSE x

compute_job_score(s, j) ==
  LET outputs_score == IF file_exists_nonempty(s.out[j]) THEN 20 ELSE 0
      ver_evid_score == IF evidence_exists_nonempty(s.evid[j]) THEN 10 ELSE 0
      score_h == (IF s.status[j] \in {"in_progress", "blocked", "done"} /\ s.started_at[j] # 0
                    THEN 2 ELSE 0)
                 + (IF s.status[j] = "done" /\ s.completed_at[j] THEN 2 ELSE 0)
                 + (IF s.status[j] \in {"planned", "in_progress", "blocked", "done"}
                    THEN 2 ELSE 0)
      penalties == IF max_iterations # 0 /\ s.iteration[j] > max_iterations THEN -10 ELSE 0
  IN Clamp(0, 100, s.textual + outputs_score + ver_evid_score + score_h + penalties)

\* a budget that counts as spent as soon as the iteration has reached the cap
over_budget_at_cap(s, j) ==
  /\ max_iterations # 0
  /\ s.iteration[j] >= max_iterations
  /\ s.status[j] \notin {"done", "cancelled"}

\* reward_eval.py main, lines 305-340
\* lines 328-337: the iteration budget is spent and the job is still open
over_budget(s, j) ==
  /\ max_iterations # 0
  /\ s.iteration[j] > max_iterations
  /\ s.status[j] \notin {"done", "cancelled"}

\* a reward write-back that blocks no job
write_reward_without_block(s, over) ==
  [s EXCEPT
     !.reward_last_score = [j \in Jobs |-> compute_job_score(s, j)],
     !.reward_last_eval_at = [j \in Jobs |-> TRUE]]

write_reward(s, over) ==
  [s EXCEPT
     !.reward_last_score = [j \in Jobs |-> compute_job_score(s, j)],
     !.reward_last_eval_at = [j \in Jobs |-> TRUE],
     !.status = [j \in Jobs |-> IF j \in over THEN "blocked" ELSE s.status[j]],
     !.progress_log = [j \in Jobs |-> IF j \in over THEN "auto-blocked"
                                                    ELSE s.progress_log[j]]]

reward_eval(s) ==
  write_truth(write_reward(s, {j \in Jobs : over_budget(s, j)}),
              [j \in Jobs |-> evaluate_job_truth(s, j)])

\* plan_check.py main: TRUE when the check exits nonzero
plan_check_fails(s) ==
  \/ \E j \in Jobs :
       /\ s.status[j] = "done"
       /\ \/ s.reward_last_score[j] < reward_target
          \/ ~s.reward_last_eval_at[j]
          \/ ~s.completed_at[j]
          \/ ~file_exists_nonempty(s.out[j])
          \/ ~evidence_exists_nonempty(s.evid[j])
          \/ evaluate_job_truth(s, j).truth_status # "pass"
  \/ \E j \in Jobs :
       /\ max_iterations # 0
       /\ s.iteration[j] > max_iterations
       /\ s.status[j] # "blocked"
  \/ /\ \/ s.proj_status \in {"in_progress", "blocked", "done"}
        \/ \E w \in WsIds : s.ws_status[w] \in {"in_progress", "blocked", "done"}
        \/ \E j \in Jobs : s.status[j] \in {"in_progress", "blocked", "done"}
     /\ s.agreement_status # "agreed"
  \/ \E w \in WsIds : s.ws_status[w] = "done" /\ \E j \in WsJobs[w] : s.status[j] # "done"
  \/ rollup_mismatch(s)
  \/ s.proj_status = "done" /\ \E w \in WsIds : s.ws_status[w] # "done"

(***************************************************************************)
(* job_start.py                                                            *)
(***************************************************************************)
\* a note taken as it was typed
Unstripped(note) == note

\* str.strip() on the decision note: a note of blanks is empty
Strip(note) == IF note \in {"", " "} THEN "" ELSE note

\* dependency_statuses / dependency_gate_errors / resolve_dependency_errors
\* a dependency gate that is content with a dependency that has been started
unmet_dependencies_started(s, j) ==
  {d \in depends_on[j] : s.status[d] \notin {"done", "in_progress"}}

unmet_dependencies(s, j) == {d \in depends_on[j] : s.status[d] # "done"}

\* a job_start that stamps started_at at every start
job_start_restamping(s, wi, allow_unmet_deps, decision_note, no_sync) ==
  LET unmet == unmet_dependencies(s, wi)
      prev_status == s.status[wi]
      it == s.iteration[wi]
      iteration == IF prev_status # "in_progress"
                     THEN (IF it <= 0 THEN 1
                           ELSE IF prev_status \in {"planned", "blocked"} THEN it + 1
                           ELSE it)
                     ELSE it
      s1 == IF unmet # {}
              THEN [s EXCEPT !.decisions = @ \cup {<<"dependency override", wi>>}]
              ELSE s
      s2 == [s1 EXCEPT !.status[wi] = "in_progress",
                       !.started_at[wi] = iteration,
                       !.iteration[wi] = iteration,
                       !.progress_log[wi] = "job_start"]
  IN IF s.agreement_status # "agreed" THEN [store |-> s, rc |-> 1]
     ELSE IF s.proj_status \in {"done", "cancelled"} THEN [store |-> s, rc |-> 1]
     ELSE IF \E w \in WsIds : wi \in WsJobs[w] /\ s.ws_status[w] \in {"done", "cancelled"}
       THEN [store |-> s, rc |-> 1]
     ELSE IF prev_status \in {"done", "cancelled"} THEN [store |-> s, rc |-> 1]
     ELSE IF unmet # {} /\ ~allow_unmet_deps THEN [store |-> s, rc |-> 1]
     ELSE IF unmet # {} /\ Strip(decision_note) = "" THEN [store |-> s, rc |-> 1]
     ELSE [store |-> sync_unless(s2, no_sync), rc |-> 0]

\* job_start.py main: [store, rc].  A time stamp is the number of the attempt
\* (iteration) in which it was written; 0 is the empty stamp.
job_start(s, wi, allow_unmet_deps, decision_note, no_sync) ==
  LET unmet == unmet_dependencies(s, wi)
      prev_status == s.status[wi]
      it == s.iteration[wi]
      iteration == IF prev_status # "in_progress"
                     THEN (IF it <= 0 THEN 1
                           ELSE IF prev_status \in {"planned", "blocked"} THEN it + 1
                           ELSE it)
                     ELSE it
      s1 == IF unmet # {}
              THEN [s EXCEPT !.decisions = @ \cup {<<"dependency override", wi>>}]
              ELSE s
      s2 == [s1 EXCEPT !.status[wi] = "in_progress",
                       !.started_at[wi] = IF @ = 0 THEN iteration ELSE @,
                       !.iteration[wi] = iteration,
                       !.progress_log[wi] = "job_start"]
  IN IF s.agreement_status # "agreed" THEN [store |-> s, rc |-> 1]
     ELSE IF s.proj_status \in {"done", "cancelled"} THEN [store |-> s, rc |-> 1]
     ELSE IF \E w \in WsIds : wi \in WsJobs[w] /\ s.ws_status[w] \in {"done", "cancelled"}
       THEN [store |-> s, rc |-> 1]
     ELSE IF prev_status \in {"done", "cancelled"} THEN [store |-> s, rc |-> 1]
     ELSE IF unmet # {} /\ ~allow_unmet_deps THEN [store |-> s, rc |-> 1]
     ELSE IF unmet # {} /\ Strip(decision_note) = "" THEN [store |-> s, rc |-> 1]
     ELSE [store |-> sync_unless(s2, no_sync), rc |-> 0]

(***************************************************************************)
(* job_complete.py                                                         *)
(***************************************************************************)
\* gating_errors: the list of failed gates, as tags, in the order of the source
gating_errors(s, j) ==
  (IF s.reward_last_score[j] < reward_target THEN <<"reward_last_score < reward_target">> ELSE <<>>)
  \o (IF ~s.reward_last_eval_at[j] THEN <<"reward_last_eval_at is empty">> ELSE <<>>)
  \o (IF s.truth_last_status[j] # "pass" THEN <<"truth_last_status">> ELSE <<>>)
  \o (IF s.truth_last_failures[j] # <<>> THEN <<"truth failures present">> ELSE <<>>)
  \o (IF unmet_dependencies(s, j) # {} THEN <<"dependency gate">> ELSE <<>>)
  \o (IF ~file_exists_nonempty(s.out[j]) THEN <<"missing/empty declared output">> ELSE <<>>)
  \o (IF ~evidence_exists_nonempty(s.evid[j]) THEN <<"missing/empty verification evidence">> ELSE <<>>)

\* the text of "truth failures present: ..." quotes the first three failures
mentions_snapshot_stale(s, j) ==
  \E i \in 1..Len(s.truth_last_failures[j]) :
     /\ i <= 3
     /\ s.truth_last_failures[j][i][2] \in
          {"snapshot stale (size changed)", "snapshot stale (mtime changed)",
           "snapshot stale (hash changed)"}

\* job_complete.py line 272
fail_status(s, j) ==
  IF unmet_dependencies(s, j) # {} \/ mentions_snapshot_stale(s, j)
    THEN "blocked" ELSE "in_progress"

try_complete_workstream(s, w) ==
  IF s.ws_status[w] \in {"done", "cancelled"} THEN s
  ELSE IF \E j \in WsJobs[w] : s.status[j] # "done" THEN s
  ELSE [s EXCEPT !.ws_status[w] = "done", !.ws_completed_at[w] = TRUE]

try_complete_project(s) ==
  IF s.proj_status \in {"done", "cancelled"} THEN s
  ELSE IF \E w \in WsIds : s.ws_status[w] # "done" THEN s
  ELSE [s EXCEPT !.proj_status = "done", !.proj_completed_at = TRUE]

parent_workstream(wi) == CHOOSE w \in WsIds : wi \in WsJobs[w]

\* job_complete.py main, lines 217-233
complete_prepare(s, wi) ==
  [s EXCEPT !.started_at[wi] =
                IF @ = 0 THEN (IF s.iteration[wi] <= 0 THEN 1 ELSE s.iteration[wi]) ELSE @,
            !.iteration[wi] = IF @ <= 0 THEN 1 ELSE @]

\* lines 235-248: the dependency gate fails
complete_dep_fail(s, wi, no_sync) ==
  sync_unless([s EXCEPT !.status[wi] = "blocked",
                        !.completed_at[wi] = FALSE,
                        !.progress_log[wi] = "job_complete: FAILED dependency gate"],
              no_sync)

\* lines 250-265: snapshot refresh, then reward and truth over the whole project
complete_evaluate(s, wi) ==
  truth_eval(reward_eval(
    [input_snapshot(s, wi) EXCEPT !.progress_log[wi] = "job_complete: attempting completion"]))

\* lines 267-283: a gate failed
complete_gate_fail(s, wi, prev_status, no_sync) ==
  sync_unless([s EXCEPT !.status[wi] = IF prev_status # "done" THEN fail_status(s, wi)
                                       ELSE prev_status,
                        !.completed_at[wi] = FALSE,
                        !.progress_log[wi] = "job_complete: FAILED gate"],
              no_sync)

\* lines 285-315: gates passed
\* lines 294-302
complete_cascade(s, wi, cascade) ==
  IF cascade THEN try_complete_project(try_complete_workstream(s, parent_workstream(wi)))
  ELSE s

complete_commit(s, wi, cascade, no_sync) ==
  sync_unless(
    invalidate_downstream(
      complete_cascade([s EXCEPT !.status[wi] = "done",
                                 !.completed_at[wi] = TRUE,
                                 !.progress_log[wi] = "job_complete: gate PASSED"],
                       wi, cascade),
      wi, TRUE),
    no_sync)

\* lines 267-315, on the store s2 that reward_eval and truth_eval left
complete_decide(s2, wi, prev_status, cascade, no_sync) ==
  IF gating_errors(s2, wi) # <<>>
    THEN [store |-> complete_gate_fail(s2, wi, prev_status, no_sync), rc |-> 1]
    ELSE [store |-> complete_commit(s2, wi, cascade, no_sync), rc |-> 0]

\* lines 235-315, on the store s1 that lines 222-233 left
complete_gates(s1, wi, prev_status, cascade, no_sync) ==
  IF unmet_dependencies(s1, wi) # {}
    THEN [store |-> complete_dep_fail(s1, wi, no_sync), rc |-> 1]
    ELSE complete_decide(complete_evaluate(s1, wi), wi, prev_status, cascade, no_sync)

\* a job_complete that does not look at the agreement
job_complete_ungated(s, wi, cascade, no_sync) ==
  IF s.status[wi] = "cancelled" THEN [store |-> s, rc |-> 1]
  ELSE complete_gates(complete_prepare(s, wi), wi, s.status[wi], cascade, no_sync)

\* job_complete.py main: [store, rc]
job_complete(s, wi, cascade, no_sync) ==
  IF s.agreement_status # "agreed" THEN [store |-> s, rc |-> 1]
  ELSE IF s.status[wi] = "cancelled" THEN [store |-> s, rc |-> 1]
  ELSE complete_gates(complete_prepare(s, wi), wi, s.status[wi], cascade, no_sync)

(***************************************************************************)
(* workstream_complete.py                                                  *)
(***************************************************************************)
\* main: [store, rc]
workstream_complete(s, w, cascade, no_sync) ==
  LET s1 == [s EXCEPT !.ws_status[w] = "done", !.ws_completed_at[w] = TRUE]
      s2 == IF cascade THEN try_complete_project(s1) ELSE s1
  IN IF s.agreement_status # "agreed" THEN [store |-> s, rc |-> 1]
     ELSE IF \E j \in WsJobs[w] : s.status[j] # "done" THEN [store |-> s, rc |-> 1]
     ELSE [store |-> sync_unless(s2, no_sync), rc |-> 0]

(***************************************************************************)
(* loop_job.py: the loop executor.  A promise is a string, modelled as a   *)
(* sequence of characters, of which only the blank matters to              *)
(* normalisation and the angle bracket to validation.                      *)
(***************************************************************************)
LOOP_MODE_ALLOWED == {"until_complete", "max_iterations", "promise_or_max"}

RECURSIVE LStrip(_)
LStrip(p) == IF p # <<>> /\ Head(p) = " " THEN LStrip(Tail(p)) ELSE p

RECURSIVE Collapse(_)
\* of a string without leading blanks: runs of blanks become one, trailing ones go
Collapse(p) ==
  IF p = <<>> THEN <<>>
  ELSE IF Head(p) = " "
    THEN (IF LStrip(p) = <<>> THEN <<>> ELSE <<" ">> \o Collapse(LStrip(p)))
  ELSE <<Head(p)>> \o Collapse(Tail(p))

\* normalize_promise: " ".join(raw.strip().split())
normalize_promise(raw) == Collapse(LStrip(raw))

RECURSIVE RStrip(_)
RStrip(p) == IF p # <<>> /\ p[Len(p)] = " " THEN RStrip(SubSeq(p, 1, Len(p) - 1)) ELSE p

\* str.strip()
StripStr(p) == RStrip(LStrip(p))

NoPromise == <<>>

\* parse_promise: the text inside <promise>..</promise>, normalised; "" without a tag
parse_promise(message) ==
  IF message.tagged THEN normalize_promise(message.inner) ELSE NoPromise

\* validate_completion_promise: TRUE when the value is rejected
promise_rejected(value) ==
  \/ value = <<>>
  \/ \E i \in 1..Len(value) : value[i] \in {"<", ">", "\n"}

stakes_default_iterations == 2

\* resolve_loop_config: [ok, mode, max_loops, completion_promise]
resolve_loop_config(s, wi, args) ==
  LET configured_mode == IF s.loop_mode[wi] \in LOOP_MODE_ALLOWED THEN s.loop_mode[wi] ELSE ""
      mode0 == IF args.mode # "" THEN args.mode ELSE configured_mode
      mode == IF mode0 = "" THEN "max_iterations" ELSE mode0
      m1 == args.max_loops
      m2 == IF m1 = 0 THEN s.loop_max_iterations[wi] ELSE m1
      m3 == IF m2 = 0 THEN max_iterations ELSE m2
      max_loops == IF m3 = 0 THEN stakes_default_iterations ELSE m3
      p1 == StripStr(args.completion_promise)
      p2 == IF p1 = <<>> THEN StripStr(s.loop_target_promise[wi]) ELSE p1
      completion_promise == IF p2 = <<>> THEN StripStr(s.completion_promise[wi]) ELSE p2
      require_promise == mode \in {"until_complete", "promise_or_max"}
  IN [ok |-> ~ \/ (require_promise /\ completion_promise = <<>> /\ max_loops <= 0)
               \/ (require_promise /\ completion_promise # <<>>
                   /\ promise_rejected(completion_promise)),
      mode |-> mode,
      max_loops |-> max_loops,
      completion_promise |-> completion_promise]

\* _start_attempt
Max2(a, b) == IF a >= b THEN a ELSE b

start_attempt(s, wi, resume) ==
  IF ~resume THEN Max2(1, s.iteration[wi])
  ELSE Max2(s.loop_last_attempt[wi], s.iteration[wi]) + 1

\* run_gates: reward_eval, truth_eval, plan_check --strict; [store, ok, stage]
gates_verdict(s, failed) ==
  [store |-> s, ok |-> ~failed, stage |-> IF failed THEN "plan_check" ELSE ""]

gates_checked(s) == gates_verdict(s, plan_check_fails(s))

run_gates(s) == gates_checked(truth_eval(reward_eval(s)))

\* a readiness test that never looks at the promise
completion_ready_without_promise(s, wi, require_promise, target_promise, last_promise) ==
  /\ s.reward_last_score[wi] >= reward_target
  /\ s.truth_last_status[wi] = "pass"
  /\ file_exists_nonempty(s.out[wi])
  /\ evidence_exists_nonempty(s.evid[wi])

\* completion_ready
completion_ready(s, wi, require_promise, target_promise, last_promise) ==
  /\ s.reward_last_score[wi] >= reward_target
  /\ s.truth_last_status[wi] = "pass"
  /\ file_exists_nonempty(s.out[wi])
  /\ evidence_exists_nonempty(s.evid[wi])
  /\ (require_promise /\ target_promise # <<>>)
       => normalize_promise(last_promise) = normalize_promise(target_promise)

\* update_job_loop_fields / project_decision at the end of main, lines 881-948
loop_persist_final(s, wi, loop_status, last_attempt, stop_reason) ==
  sync_project_plans(
    [s EXCEPT !.loop_status[wi] = loop_status,
              !.loop_last_attempt[wi] = last_attempt,
              !.loop_stop_reason[wi] = stop_reason,
              !.progress_log[wi] = "loop finished",
              !.decisions = @ \cup {<<"loop decision", wi>>}])

\* a process that reports every failure as 1
loop_exit_code_one(loop_status, loop_done, final_code) ==
  IF loop_done THEN 0 ELSE 1

\* the process exit code, lines 954-971
loop_exit_code(loop_status, loop_done, final_code) ==
  IF loop_done THEN 0
  ELSE IF loop_status = "blocked" THEN 1
  ELSE IF loop_status = "error" THEN (IF final_code # 0 THEN final_code ELSE 1)
  ELSE 1

(***************************************************************************)
(* The state machine.  `store` is the document store; `loop` is the        *)
(* loop_job process: its position, its local variables and, once it has    *)
(* exited, its exit code, which stays observable until the next command    *)
(* runs.                                                                   *)
(***************************************************************************)
\* reward components read from the plan text, the logs and the reports
TextualLow == 20

TextualHigh == 46

\* promises are sequences of characters
P_DONE == <<"D">>

IdleLoop ==
  [pc |-> "idle", wi |-> "", mode |-> "", max_loops |-> 0, completion_promise |-> <<>>,
   walltime |-> FALSE, attempt |-> 0, last_attempt |-> 0, invocations |-> 0,
   last_promise |-> <<>>, gates |-> "", loop_status |-> "", stop_reason |-> "",
   result_exit_code |-> 0, exit_code |-> 0, runs |-> 0]

\* the store that project_new, workstream_add and job_add leave behind
InitStore(textual, promise) ==
  [status |-> [j \in Jobs |-> "planned"],
   completed_at |-> [j \in Jobs |-> FALSE],
   started_at |-> [j \in Jobs |-> 0],
   iteration |-> [j \in Jobs |-> 0],
   reward_last_score |-> [j \in Jobs |-> 0],
   reward_last_eval_at |-> [j \in Jobs |-> FALSE],
   truth_mode |-> [j \in Jobs |-> "strict"],
   truth_checks |-> [j \in Jobs |-> {}],
   truth_last_status |-> [j \in Jobs |-> "unknown"],
   truth_last_failures |-> [j \in Jobs |-> <<>>],
   truth_input_snapshot |-> [j \in Jobs |-> TRUE],
   progress_log |-> [j \in Jobs |-> "created job"],
   completion_promise |-> [j \in Jobs |-> promise],
   loop_mode |-> [j \in Jobs |-> ""],
   loop_max_iterations |-> [j \in Jobs |-> 0],
   loop_target_promise |-> [j \in Jobs |-> <<>>],
   loop_status |-> [j \in Jobs |-> ""],
   loop_stop_reason |-> [j \in Jobs |-> ""],
   loop_last_attempt |-> [j \in Jobs |-> 0],
   out |-> [j \in Jobs |-> AbsentFile],
   evid |-> [j \in Jobs |-> AbsentEvidence],
   snapshot |-> [j \in Jobs |-> NoSnapshot],
   cancel |-> {},
   ws_status |-> [w \in WsIds |-> "planned"],
   ws_completed_at |-> [w \in WsIds |-> FALSE],
   proj_status |-> "planned",
   proj_completed_at |-> FALSE,
   agreement_status |-> "proposed",
   decisions |-> {},
   textual |-> textual,
   depends_on |-> ("A" :> {}) @@ ("B" :> {"A"}) @@ ("C" :> {"B"})]

(***************************************************************************)
(* orchestrate_plan.py and dependency_graph.py: the scheduler and the      *)
(* graph builder.  orch is the project they read (the first n jobs of      *)
(* NodeOrder exist) together with the payloads they wrote.                 *)
(***************************************************************************)
\* job_add hands out the work item ids in this order, and sorted() keeps it
NodeOrder == <<"A", "B", "C", "D">>

\* sorted(S) for a set of work item ids
Sorted(S) == SelectSeq(NodeOrder, LAMBDA n : n \in S)

\* project_new: no job yet, subagent_policy auto, max_parallel_agents 3
EmptyProject ==
  [n |-> 0,
   status |-> <<>>,
   estimate_hours |-> <<>>,
   depends_on |-> <<>>,
   subagent_policy |-> "auto",
   max_parallel_agents |-> 3,
   payload |-> [schema |-> ""],
   graph |-> [schema |-> ""]]

\* float(value or 1.0), and 1.0 for what is not positive
parse_estimate_hours(value) == IF value <= 0 THEN 1 ELSE value

\* value is [set, int]: an unset or unparsable value has set = FALSE
parse_positive_int(value, default) ==
  IF ~value.set THEN default
  ELSE IF value.int <= 0 THEN default
  ELSE value.int

\* a limit that no policy collapses
policy_parallel_limit_configured(policy, configured_limit) == configured_limit

policy_parallel_limit(policy, configured_limit) ==
  IF policy \in {"serial", "single", "manual", "off", "disabled", "none"} THEN 1
  ELSE configured_limit

\* main, lines 147-160: [subagent_policy, configured, effective]
effective_limit(o, env) ==
  LET \* str.lower() on the policy names the model follows
      lower(policy) ==
        IF policy = "Serial" THEN "serial"
        ELSE IF policy = "Manual" THEN "manual" ELSE policy
      project_policy == IF lower(o.subagent_policy) = "" THEN "auto"
                        ELSE lower(o.subagent_policy)
      env_policy == lower(env.THEWORKSHOP_SUBAGENT_POLICY)
      policy1 == IF env_policy # "" THEN env_policy ELSE project_policy
      subagent_policy == IF env.THEWORKSHOP_NO_SUBAGENTS = "1" THEN "off" ELSE policy1
      limit0 == parse_positive_int([set |-> TRUE, int |-> o.max_parallel_agents], 3)
      configured_limit ==
        IF env.THEWORKSHOP_MAX_PARALLEL_AGENTS.set
          THEN parse_positive_int(env.THEWORKSHOP_MAX_PARALLEL_AGENTS, limit0)
          ELSE limit0
  IN [subagent_policy |-> subagent_policy,
      env_policy |-> env_policy,
      configured |-> configured_limit,
      effective |-> policy_parallel_limit(subagent_policy, configured_limit)]

\* scan_jobs: the job records by work item id
scan_jobs(o) ==
  [wi \in {NodeOrder[i] : i \in 1..o.n} |->
     LET i == CHOOSE k \in 1..o.n : NodeOrder[k] = wi
     IN [status |-> o.status[i],
         estimate_hours |-> parse_estimate_hours(o.estimate_hours[i]),
         depends_on |-> o.depends_on[i]]]

\* the elements of a list
Elems(seq) == {seq[i] : i \in DOMAIN seq}

\* main, lines 166-172 (and build_graph, lines 87-99): sorted(set(edges)), as a set
all_edges(jobs) ==
  {e \in (DOMAIN jobs) \X (DOMAIN jobs) : e[1] \in Elems(jobs[e[2]].depends_on)}

\* critical_path, lines 85-94: the order Kahn's algorithm pops the nodes in
RECURSIVE topo_order(_, _, _, _)
topo_order(frontier, indeg, edges, order) ==
  IF frontier = <<>> THEN order
  ELSE LET cur == Head(frontier)
           children == {e[2] : e \in {e \in edges : e[1] = cur}}
           indeg1 == [n \in DOMAIN indeg |->
                        IF n \in children THEN indeg[n] - 1 ELSE indeg[n]]
           ready == {c \in children : indeg1[c] = 0}
       IN topo_order(Sorted(Elems(Tail(frontier)) \cup ready), indeg1, edges,
                     Append(order, cur))

\* critical_path, lines 99-113: [dist, parent] after the pass over the order
RECURSIVE longest_paths(_, _, _, _)
longest_paths(order, edges, weights, acc) ==
  IF order = <<>> THEN acc
  ELSE LET node == Head(order)
           node_weight == weights[node]
           preds == Sorted({e[1] : e \in {e \in edges : e[2] = node}})
           RECURSIVE best_of(_, _)
           best_of(ps, b) ==
             IF ps = <<>> THEN b
             ELSE best_of(Tail(ps),
                    IF Head(ps) \in DOMAIN acc.dist
                         /\ acc.dist[Head(ps)] + node_weight > b.best
                      THEN [best |-> acc.dist[Head(ps)] + node_weight,
                            best_parent |-> Head(ps)]
                      ELSE b)
           b == best_of(preds, [best |-> node_weight, best_parent |-> ""])
       IN longest_paths(Tail(order), edges, weights,
            [dist |-> acc.dist @@ (node :> b.best),
             parent |-> acc.parent @@ (node :> b.best_parent)])

\* a path that ends at the last node of the order, whatever its dist
path_to_last(order, dp) ==
  LET RECURSIVE walk(_, _)
      walk(cur, path) == IF cur = "" THEN path ELSE walk(dp.parent[cur], <<cur>> \o path)
  IN [path |-> walk(order[Len(order)], <<>>), total |-> dp.dist[order[Len(order)]]]

\* critical_path, lines 118-126: walk the parents back from the first node
\* of the order whose dist is greatest; [path, total]
path_to_end(order, dp) ==
  LET i == CHOOSE i \in 1..Len(order) :
             \A k \in 1..Len(order) :
               /\ dp.dist[order[k]] <= dp.dist[order[i]]
               /\ k < i => dp.dist[order[k]] < dp.dist[order[i]]
      RECURSIVE walk(_, _)
      walk(cur, path) == IF cur = "" THEN path ELSE walk(dp.parent[cur], <<cur>> \o path)
  IN [path |-> walk(order[i], <<>>), total |-> dp.dist[order[i]]]

\* a critical path over whatever part of the graph the order reached
critical_path_of_reached(node_ids, edges, weights) ==
  LET indeg == [n \in Elems(node_ids) |-> Cardinality({e \in edges : e[2] = n})]
      order == topo_order(Sorted({n \in Elems(node_ids) : indeg[n] = 0}), indeg, edges, <<>>)
      r == path_to_end(order, longest_paths(order, edges, weights, [dist |-> <<>>, parent |-> <<>>]))
  IN IF order = <<>> THEN [path |-> <<>>, total |-> 0, available |-> TRUE]
     ELSE [path |-> r.path, total |-> r.total, available |-> TRUE]

\* orchestrate_plan.critical_path: [path, total, available]
critical_path(node_ids, edges, weights) ==
  LET indeg == [n \in Elems(node_ids) |-> Cardinality({e \in edges : e[2] = n})]
      order == topo_order(Sorted({n \in Elems(node_ids) : indeg[n] = 0}), indeg, edges, <<>>)
      r == path_to_end(order, longest_paths(order, edges, weights, [dist |-> <<>>, parent |-> <<>>]))
  IN IF Len(order) # Len(node_ids) THEN [path |-> <<>>, total |-> 0, available |-> FALSE]
     ELSE IF order = <<>> THEN [path |-> <<>>, total |-> 0, available |-> TRUE]
     ELSE [path |-> r.path, total |-> r.total, available |-> TRUE]

RUNNABLE_STATUSES == {"planned", "blocked", "in_progress"}

\* main, lines 176-206: the active set, indeg, adj and the two blocked reasons
blocked_reasons(jobs) ==
  LET active_set == {wi \in DOMAIN jobs : jobs[wi].status \in RUNNABLE_STATUSES}
      waits(dep) == dep \in DOMAIN jobs /\ jobs[dep].status # "done"
  IN [active_set |-> active_set,
      indeg |-> [wi \in active_set |->
                   Cardinality({i \in DOMAIN jobs[wi].depends_on :
                                  /\ waits(jobs[wi].depends_on[i])
                                  /\ jobs[wi].depends_on[i] \in active_set})],
      adj |-> [dep \in active_set |->
                 {wi \in active_set : dep \in Elems(jobs[wi].depends_on)}],
      missing_dependencies |->
        [wi \in active_set |-> {dep \in Elems(jobs[wi].depends_on) : dep \notin DOMAIN jobs}],
      not_done_dependencies |->
        [wi \in active_set |->
           {dep \in Elems(jobs[wi].depends_on) : waits(dep) /\ dep \notin active_set}]]

\* a frontier that takes every unblocked active job, whatever its indeg
first_frontier_without_indeg(br) ==
  Sorted({wi \in br.active_set : /\ br.missing_dependencies[wi] = {}
                                 /\ br.not_done_dependencies[wi] = {}})

\* a frontier that a dependency outside the active set never keeps a job from
first_frontier_ignoring_not_done(br) ==
  Sorted({wi \in br.active_set : /\ br.indeg[wi] = 0
                                 /\ br.missing_dependencies[wi] = {}})

\* main, lines 208-216
first_frontier(br) ==
  Sorted({wi \in br.active_set : /\ br.indeg[wi] = 0
                                 /\ br.missing_dependencies[wi] = {}
                                 /\ br.not_done_dependencies[wi] = {}})

\* a sequence cut into consecutive chunks of at most n elements
RECURSIVE Chunks(_, _)
Chunks(seq, n) ==
  IF seq = <<>> THEN <<>>
  ELSE IF Len(seq) <= n THEN <<seq>>
  ELSE <<SubSeq(seq, 1, n)>> \o Chunks(SubSeq(seq, n + 1, Len(seq)), n)

\* waves by levels: the whole ready set is cut into waves before the jobs
\* it made ready are looked at
RECURSIVE wave_loop_by_levels(_, _, _, _, _)
wave_loop_by_levels(frontier, indeg, br, effective, waves) ==
  IF frontier = <<>> THEN [waves |-> waves, indeg |-> indeg]
  ELSE LET hits(child) == Cardinality({wi \in Elems(frontier) : child \in br.adj[wi]})
           indeg1 == [child \in DOMAIN indeg |-> indeg[child] - hits(child)]
           ready == {child \in DOMAIN indeg :
                       /\ hits(child) > 0 /\ indeg1[child] = 0
                       /\ br.missing_dependencies[child] = {}
                       /\ br.not_done_dependencies[child] = {}}
       IN wave_loop_by_levels(Sorted(ready), indeg1, br, effective,
                              waves \o Chunks(frontier, effective))

\* main, lines 220-232: [waves, indeg] when the frontier has run empty
RECURSIVE wave_loop(_, _, _, _, _)
wave_loop(frontier, indeg, br, effective, waves) ==
  IF frontier = <<>> THEN [waves |-> waves, indeg |-> indeg]
  ELSE LET cut == IF effective < Len(frontier) THEN effective ELSE Len(frontier)
           current_wave == SubSeq(frontier, 1, cut)
           hits(child) == Cardinality({wi \in Elems(current_wave) : child \in br.adj[wi]})
           indeg1 == [child \in DOMAIN indeg |-> indeg[child] - hits(child)]
           ready == {child \in DOMAIN indeg :
                       /\ hits(child) > 0 /\ indeg1[child] = 0
                       /\ br.missing_dependencies[child] = {}
                       /\ br.not_done_dependencies[child] = {}}
       IN wave_loop(Sorted(Elems(SubSeq(frontier, cut + 1, Len(frontier))) \cup ready),
                    indeg1, br, effective, Append(waves, current_wave))

\* main, lines 234-254: the report of the active jobs that no wave holds
blocked_jobs(jobs, br, scheduled, indeg) ==
  [wi \in {wi \in br.active_set \ scheduled :
             \/ br.missing_dependencies[wi] # {}
             \/ br.not_done_dependencies[wi] # {}
             \/ indeg[wi] > 0} |->
     [missing_dependencies |-> br.missing_dependencies[wi],
      not_done_dependencies |-> br.not_done_dependencies[wi],
      pending_or_cyclic_dependencies |->
        IF indeg[wi] > 0
          THEN {dep \in Elems(jobs[wi].depends_on) : dep \in br.active_set \ scheduled}
          ELSE {}]]

\* orchestrate_plan main: the payload written to outputs/orchestration.json
orchestrate(o, env) ==
  LET limit == effective_limit(o, env)
      jobs == scan_jobs(o)
      node_ids == Sorted(DOMAIN jobs)
      cp == critical_path(node_ids, all_edges(jobs), [wi \in DOMAIN jobs |-> jobs[wi].estimate_hours])
      br == blocked_reasons(jobs)
      w == wave_loop(first_frontier(br), br.indeg, br, limit.effective, <<>>)
      scheduled == UNION {Elems(w.waves[i]) : i \in DOMAIN w.waves}
  IN [schema |-> "theworkshop.orchestration.v1",
      subagent_policy |-> limit.subagent_policy,
      subagent_policy_env_override |-> limit.env_policy,
      subagents_disabled_env |-> env.THEWORKSHOP_NO_SUBAGENTS = "1",
      max_parallel_agents |-> [configured |-> limit.configured, effective |-> limit.effective],
      critical_path |-> [work_items |-> cp.path, total_estimate_hours |-> cp.total,
                         available |-> cp.available],
      runnable_now |-> IF w.waves = <<>> THEN <<>> ELSE w.waves[1],
      groups |-> w.waves,
      blocked_jobs |-> blocked_jobs(jobs, br, scheduled, w.indeg)]

\* dependency_graph.topo_groups: [groups, processed, cycle_nodes]
topo_groups(nodes, edges) ==
  LET adj(n) == {e[2] : e \in {e \in edges : e[1] = n}}
      RECURSIVE group_loop(_, _, _, _)
      group_loop(frontier, indeg, groups, processed) ==
        IF frontier = <<>> THEN [groups |-> groups, processed |-> processed]
        ELSE LET hits(child) == Cardinality({n \in Elems(frontier) : child \in adj(n)})
                 indeg1 == [child \in DOMAIN indeg |-> indeg[child] - hits(child)]
                 next_frontier == {child \in DOMAIN indeg :
                                     hits(child) > 0 /\ indeg1[child] = 0}
             IN group_loop(Sorted(next_frontier), indeg1, Append(groups, frontier),
                           processed \o frontier)
      indeg0 == [n \in Elems(nodes) |-> Cardinality({e \in edges : e[2] = n})]
      r == group_loop(Sorted({n \in Elems(nodes) : indeg0[n] = 0}), indeg0, <<>>, <<>>)
  IN [groups |-> r.groups, processed |-> r.processed,
      cycle_nodes |-> Sorted(Elems(nodes) \ Elems(r.processed))]

\* dependency_graph.critical_path: [path, total]
graph_critical_path(order, edges, weights) ==
  IF order = <<>> THEN [path |-> <<>>, total |-> 0]
  ELSE path_to_end(order, longest_paths(order, edges, weights, [dist |-> <<>>, parent |-> <<>>]))

\* dependency_graph main: the payload written to outputs/dependency-graph.json
dependency_graph(o) ==
  LET nodes_by_id == scan_jobs(o)
      node_ids == Sorted(DOMAIN nodes_by_id)
      edges == all_edges(nodes_by_id)
      t == topo_groups(node_ids, edges)
      cp == IF t.cycle_nodes = <<>>
              THEN graph_critical_path(t.processed, edges,
                     [wi \in DOMAIN nodes_by_id |-> nodes_by_id[wi].estimate_hours])
              ELSE [path |-> <<>>, total |-> 0]
  IN [schema |-> "theworkshop.dependencygraph.v1",
      edges |-> edges,
      topo_groups |-> t.groups,
      critical_path |-> [work_items |-> cp.path, total_estimate_hours |-> cp.total,
                         available |-> t.cycle_nodes = <<>>],
      cycle_nodes |-> t.cycle_nodes]

Init ==
  /\ store \in {InitStore(t, P_DONE) : t \in {TextualLow, TextualHigh}}
  /\ loop = IdleLoop
  /\ orch = EmptyProject

(***************************************************************************)
(* The operator and the agents edit files between commands.                *)
(***************************************************************************)
\* the operator records the agreement in the project plan
Agree ==
  /\ store.agreement_status # "agreed"
  /\ store' = [store EXCEPT !.agreement_status = "agreed"]
  /\ UNCHANGED <<loop, orch>>

\* the operator withdraws the agreement in the project plan
Disagree ==
  /\ loop.pc = "idle"
  /\ store.agreement_status = "agreed"
  /\ store' = [store EXCEPT !.agreement_status = "proposed"]
  /\ UNCHANGED <<loop, orch>>

\* the operator sets truth_mode and truth_checks in the plan of a job that has
\* not been started
EditTruth(j, truth_mode, truth_checks) ==
  /\ loop.pc = "idle"
  /\ store.status[j] = "planned"
  /\ store.truth_mode[j] = "strict" /\ store.truth_checks[j] = {}
  /\ store' = [store EXCEPT !.truth_mode[j] = truth_mode, !.truth_checks[j] = truth_checks]
  /\ store' # store
  /\ UNCHANGED <<loop, orch>>

\* an output file is written: new content, new modification time
WriteOutput(j, kind) ==
  /\ store.out[j].ver < MaxVer
  /\ store' = [store EXCEPT !.out[j] = [kind |-> kind, ver |-> @.ver + 1],
                            !.evid[j] = [@ EXCEPT !.fresh = FALSE]]
  /\ UNCHANGED <<loop, orch>>

\* the runner of a loop attempt writes verification.md, after the outputs
WriteEvidence(j, kind) ==
  /\ loop.pc = "exec"
  /\ store.evid[j] # [kind |-> kind, fresh |-> TRUE]
  /\ store' = [store EXCEPT !.evid[j] = [kind |-> kind, fresh |-> TRUE]]
  /\ UNCHANGED <<loop, orch>>

\* the agent working on a job writes its output, then its verification evidence
Work(j) ==
  /\ store.status[j] = "in_progress"
  /\ store.out[j].ver < MaxVer
  /\ store' = [store EXCEPT !.out[j] = [kind |-> "full", ver |-> @.ver + 1],
                            !.evid[j] = [kind |-> "ok", fresh |-> TRUE]]
  /\ UNCHANGED <<loop, orch>>

\* a finished job's output is rewritten afterwards
Revise(j) ==
  /\ store.status[j] = "done"
  /\ store.out[j].kind = "full"
  /\ WriteOutput(j, "full")

\* a finished job's output and its verification evidence are both redone
Redo(j) ==
  /\ store.status[j] = "done"
  /\ store.out[j].kind = "full"
  /\ store.out[j].ver < MaxVer
  /\ store' = [store EXCEPT !.out[j] = [kind |-> "full", ver |-> @.ver + 1],
                            !.evid[j] = [kind |-> "ok", fresh |-> TRUE]]
  /\ UNCHANGED <<loop, orch>>

\* the operator gives a job up: status cancelled, written into the job plan by
\* hand (no command writes it)
Cancel(j) ==
  /\ loop.pc = "idle"
  /\ store.status[j] \in {"planned", "in_progress", "blocked"}
  /\ store' = [store EXCEPT !.status[j] = "cancelled"]
  /\ UNCHANGED <<loop, orch>>

\* the operator drops the cancel marker of a job's loop
PlaceCancel(j) ==
  /\ loop.pc # "idle"
  /\ j \notin store.cancel
  /\ store' = [store EXCEPT !.cancel = @ \cup {j}]
  /\ UNCHANGED <<loop, orch>>

(***************************************************************************)
(* Lifecycle commands, each one atomic.                                    *)
(***************************************************************************)
\* a new command: the previous loop process and its exit code are gone
Forget(l) == [IdleLoop EXCEPT !.runs = l.runs]

Overrides(s) == {d \in s.decisions : d[1] = "dependency override"}

JobStart(wi, allow_unmet_deps, decision_note, no_sync) ==
  /\ loop.pc = "idle"
  /\ loop.runs < MaxRuns
  /\ store.iteration[wi] < MaxIter
  /\ (allow_unmet_deps /\ unmet_dependencies(store, wi) # {})
       => Cardinality(Overrides(store)) < MaxOverrides
  /\ store' = job_start(store, wi, allow_unmet_deps, decision_note, no_sync).store
  /\ loop' = Forget(loop)
  /\ UNCHANGED orch

\* which exit job_complete takes
complete_outcome(s, wi) ==
  IF s.agreement_status # "agreed" \/ s.status[wi] = "cancelled" THEN "refused"
  ELSE IF unmet_dependencies(complete_prepare(s, wi), wi) # {} THEN "dep_gate_failed"
  ELSE IF gating_errors(complete_evaluate(complete_prepare(s, wi), wi), wi) # <<>>
    THEN "gate_failed"
  ELSE "ok"

JobComplete(wi, cascade, no_sync) ==
  /\ loop.pc = "idle"
  /\ loop.runs < MaxRuns
  /\ store' = job_complete(store, wi, cascade, no_sync).store
  /\ loop' = Forget(loop)
  /\ UNCHANGED orch

\* input_snapshot.py run by hand: the snapshot of wi's dependencies is taken anew
InputSnapshot(wi) ==
  /\ loop.pc = "idle"
  /\ store' = input_snapshot(store, wi)
  /\ store' # store
  /\ UNCHANGED <<loop, orch>>

WorkstreamComplete(w, cascade, no_sync) ==
  /\ loop.pc = "idle"
  /\ loop.runs < MaxRuns
  /\ store' = workstream_complete(store, w, cascade, no_sync).store
  /\ loop' = Forget(loop)
  /\ UNCHANGED orch

InvalidateDownstream(scope, no_sync) ==
  /\ loop.pc = "idle"
  /\ loop.runs < MaxRuns
  /\ store' = invalidate_downstream(store, scope, no_sync)
  /\ loop' = Forget(loop)
  /\ UNCHANGED orch

(***************************************************************************)
(* loop_job.py main.  LoopBegin is the part before the while loop, LoopTop *)
(* the stop checks at the top of an iteration, LoopExec the return of the  *)
(* runner with everything that follows it in the iteration.                *)
(***************************************************************************)
\* lines 616-634: the checks that end the process before anything is written
loop_precheck_fails(s, wi) ==
  \/ s.agreement_status # "agreed"
  \/ s.proj_status \in {"done", "cancelled"}
  \/ s.status[wi] \in {"done", "cancelled"}
  \/ s.ws_status[parent_workstream(wi)] \in {"done", "cancelled"}

\* lines 636-651: the dependency override of the loop
loop_override(s, wi) ==
  [s EXCEPT !.decisions = @ \cup {<<"dependency override", wi>>},
            !.progress_log[wi] = "dependency override"]

\* lines 653-659: the configuration the run works under
loop_config(s, wi, args) ==
  LET cfg == resolve_loop_config(s, wi, args)
      require_promise == cfg.mode \in {"until_complete", "promise_or_max"}
  IN [cfg EXCEPT !.ok = cfg.ok /\ ~(require_promise /\ cfg.max_loops <= 0
                                     /\ cfg.completion_promise = <<>>),
                 !.max_loops = IF ~require_promise /\ cfg.max_loops <= 0
                                 THEN stakes_default_iterations ELSE cfg.max_loops]

\* lines 661-688: the loop fields and the project decision at loop start
loop_mark_active(s, wi, cfg) ==
  [s EXCEPT !.loop_mode[wi] = cfg.mode,
            !.loop_max_iterations[wi] = cfg.max_loops,
            !.loop_target_promise[wi] = cfg.completion_promise,
            !.loop_status[wi] = "active",
            !.loop_stop_reason[wi] = "",
            !.progress_log[wi] = "loop start",
            !.decisions = @ \cup {<<"loop decision", wi>>}]

\* the process ended before the while loop, with exit code 1
LoopAborted(wi) ==
  [IdleLoop EXCEPT !.wi = wi, !.loop_status = "aborted", !.exit_code = 1]

\* lines 616-730: [store, loop]
loop_begin(s, wi, args) ==
  LET unmet == unmet_dependencies(s, wi)
      allow_override == args.allow_unmet_deps
      s1 == IF unmet # {} THEN loop_override(s, wi) ELSE s
      cfg == loop_config(s1, wi, args)
      s2 == loop_mark_active(s1, wi, cfg)
      started == job_start(s2, wi, allow_override, args.decision_note, FALSE)
      s3 == IF s.status[wi] # "in_progress" THEN started.store ELSE s2
      \* the frontmatter is read again only after job_start ran
      fm == IF s.status[wi] # "in_progress" THEN s3 ELSE s
      attempt == start_attempt(fm, wi, args.resume)
  IN IF loop_precheck_fails(s, wi) THEN [store |-> s, loop |-> LoopAborted(wi)]
     ELSE IF unmet # {} /\ ~allow_override THEN [store |-> s, loop |-> LoopAborted(wi)]
     ELSE IF unmet # {} /\ Strip(args.decision_note) = ""
       THEN [store |-> s, loop |-> LoopAborted(wi)]
     ELSE IF ~cfg.ok THEN [store |-> s1, loop |-> LoopAborted(wi)]
     ELSE IF ~args.preflight_ok THEN [store |-> s2, loop |-> LoopAborted(wi)]
     ELSE IF s.status[wi] # "in_progress" /\ started.rc # 0
       THEN [store |-> s2, loop |-> LoopAborted(wi)]
     ELSE [store |-> s3,
           loop |-> [IdleLoop EXCEPT !.pc = "top", !.wi = wi, !.mode = cfg.mode,
                                     !.max_loops = cfg.max_loops,
                                     !.completion_promise = cfg.completion_promise,
                                     !.walltime = args.walltime,
                                     !.attempt = attempt, !.last_attempt = attempt,
                                     !.loop_status = "active"]]

LoopBegin(wi, args) ==
  /\ loop.pc = "idle"
  /\ loop.runs < MaxRuns
  /\ store.iteration[wi] < MaxIter
  /\ (args.allow_unmet_deps /\ unmet_dependencies(store, wi) # {})
       => Cardinality(Overrides(store)) < MaxOverrides
  /\ \E r \in {loop_begin(store, wi, args)} :
       store' = r.store /\ loop' = [r.loop EXCEPT !.runs = loop.runs + 1]
  /\ UNCHANGED orch

\* loop_job is run again after an earlier run has ended
LoopAgain(wi, args) ==
  /\ loop.pc = "idle"
  /\ loop.runs >= MaxRuns
  /\ loop.runs < MaxRuns + MaxReruns
  /\ store.iteration[wi] < MaxIter
  /\ \E r \in {loop_begin(store, wi, args)} :
       store' = r.store /\ loop' = [r.loop EXCEPT !.runs = loop.runs + 1]
  /\ UNCHANGED orch

\* a stop condition that records its status but does not leave the while loop
loop_finish_without_break(s, l, loop_status, stop_reason, final_code, loop_done) ==
  [store |-> [s EXCEPT !.loop_status[l.wi] = loop_status,
                       !.loop_stop_reason[l.wi] = stop_reason],
   loop |-> [l EXCEPT !.pc = "top", !.loop_status = loop_status,
                      !.stop_reason = stop_reason]]

\* lines 881-971: the final persist and the exit of the process
loop_finish(s, l, loop_status, stop_reason, final_code, loop_done) ==
  [store |-> loop_persist_final(s, l.wi, loop_status, l.last_attempt, stop_reason),
   loop |-> [l EXCEPT !.pc = "idle", !.loop_status = loop_status,
                      !.stop_reason = stop_reason,
                      !.exit_code = loop_exit_code(loop_status, loop_done, final_code)]]

\* lines 750-763: the attempt begins
loop_attempt_begin(s, l) ==
  [s EXCEPT !.status[l.wi] = "in_progress",
            !.loop_status[l.wi] = "active",
            !.loop_last_attempt[l.wi] = l.attempt,
            !.loop_stop_reason[l.wi] = "",
            !.loop_max_iterations[l.wi] = l.max_loops,
            !.loop_mode[l.wi] = l.mode,
            !.loop_target_promise[l.wi] = l.completion_promise,
            !.progress_log[l.wi] = "loop attempt begin"]

\* a loop that already stops when the attempt number has reached the cap
loop_top_stopping_at_cap(s, l, walltime_exceeded) ==
  IF l.walltime /\ walltime_exceeded THEN loop_finish(s, l, "blocked", "timeout", 0, FALSE)
  ELSE IF l.max_loops > 0 /\ l.attempt >= l.max_loops
    THEN loop_finish(s, l, "blocked", "max_iterations", 0, FALSE)
  ELSE IF l.wi \in s.cancel THEN loop_finish(s, l, "stopped", "cancel", 0, FALSE)
  ELSE [store |-> loop_attempt_begin(s, l), loop |-> [l EXCEPT !.pc = "exec"]]

\* lines 732-763: [store, loop]
loop_top(s, l, walltime_exceeded) ==
  IF l.walltime /\ walltime_exceeded THEN loop_finish(s, l, "blocked", "timeout", 0, FALSE)
  ELSE IF l.max_loops > 0 /\ l.attempt > l.max_loops
    THEN loop_finish(s, l, "blocked", "max_iterations", 0, FALSE)
  ELSE IF l.wi \in s.cancel THEN loop_finish(s, l, "stopped", "cancel", 0, FALSE)
  ELSE [store |-> loop_attempt_begin(s, l), loop |-> [l EXCEPT !.pc = "exec"]]

LoopTop(walltime_exceeded) ==
  /\ loop.pc = "top"
  /\ \E r \in {loop_top(store, loop, walltime_exceeded)} :
       /\ r.loop.pc = "exec" => loop.invocations < MaxInvocations
       /\ store' = r.store
       /\ loop' = r.loop
  /\ UNCHANGED orch

\* the runner's exit codes the model follows
ExitCodes == {0, 1, 7}

\* f"exit_code_{result.exit_code}"
exit_code_reason(n) == "exit_code_" \o ToString(n)

\* lines 773-802: the attempt is recorded
loop_attempt_record(s, l) ==
  [s EXCEPT !.loop_status[l.wi] = "active",
            !.loop_last_attempt[l.wi] = l.attempt,
            !.loop_stop_reason[l.wi] = "",
            !.iteration[l.wi] = l.attempt,
            !.loop_mode[l.wi] = l.mode,
            !.loop_max_iterations[l.wi] = l.max_loops,
            !.loop_target_promise[l.wi] = l.completion_promise,
            !.progress_log[l.wi] = "loop attempt codex exit"]

\* lines 810-826 and 864-879: the attempt did not complete the job
loop_continue(s, l, reason) ==
  [store |-> sync_project_plans(
               [s EXCEPT !.loop_status[l.wi] = "active",
                         !.loop_stop_reason[l.wi] = reason,
                         !.iteration[l.wi] = l.attempt,
                         !.progress_log[l.wi] = "loop attempt: continuing"]),
   loop |-> [l EXCEPT !.pc = "top", !.attempt = l.attempt + 1]]

\* lines 828-862: completion is attempted through job_complete --cascade
loop_completed(done, l, stop_reason) ==
  IF done.rc = 0
    THEN loop_finish(
           [done.store EXCEPT !.status[l.wi] = "done",
                              !.loop_status[l.wi] = "completed",
                              !.loop_stop_reason[l.wi] = stop_reason,
                              !.progress_log[l.wi] = "loop attempt: job_complete succeeded"],
           l, "completed", stop_reason, 0, TRUE)
    ELSE loop_finish(
           [done.store EXCEPT !.loop_status[l.wi] = "error",
                              !.loop_stop_reason[l.wi] = "job_complete_failed",
                              !.progress_log[l.wi] = "loop attempt: job_complete failed"],
           l, "error", "job_complete_failed", done.rc, FALSE)

loop_complete(s, l, require_promise) ==
  loop_completed(job_complete(s, l.wi, TRUE, FALSE), l,
                 IF require_promise /\ l.last_promise # <<>>
                   THEN "promise_detected" ELSE "completed")

\* lines 810-879: after the gates ran; l.gates holds their verdict (gates_ok)
loop_gates_decided(gates, l, require_promise) ==
  IF ~gates.ok
    THEN loop_continue(gates.store, l, "gates_" \o gates.stage \o "_failed")
  ELSE IF completion_ready(gates.store, l.wi, require_promise, l.completion_promise,
                           l.last_promise)
    THEN loop_complete(gates.store, l, require_promise)
  ELSE loop_continue(gates.store, l, "gates_passed_not_complete")

loop_after_gates(gates, l, require_promise) ==
  loop_gates_decided(
    gates, [l EXCEPT !.gates = IF gates.ok THEN "passed" ELSE "failed"], require_promise)

\* lines 804-879: after the attempt was recorded in s1
loop_after_runner(s1, l, exit_code) ==
  IF exit_code # 0
    THEN loop_finish(s1, l, "error", exit_code_reason(exit_code), exit_code, FALSE)
    ELSE loop_after_gates(run_gates(s1), l, l.mode \in {"until_complete", "promise_or_max"})

loop_runner_returned(s, l, exit_code) ==
  loop_after_runner(loop_attempt_record(s, l), l, exit_code)

\* lines 765-879: the runner returned `exit_code` and `message`; [store, loop]
loop_exec(s, l0, exit_code, message) ==
  loop_runner_returned(s, [l0 EXCEPT !.last_attempt = l0.attempt,
                                     !.gates = "",
                                     !.result_exit_code = exit_code,
                                     !.invocations = l0.invocations + 1,
                                     !.last_promise = parse_promise(message)],
                       exit_code)

LoopExec(exit_code, message) ==
  /\ loop.pc = "exec"
  /\ \E r \in {loop_exec(store, loop, exit_code, message)} :
       store' = r.store /\ loop' = r.loop
  /\ UNCHANGED orch

\* the arguments of a plain `loop_job --work-item-id WI`
DefaultArgs ==
  [mode |-> "", max_loops |-> 0, completion_promise |-> <<>>, allow_unmet_deps |-> FALSE,
   decision_note |-> "", resume |-> FALSE, walltime |-> FALSE, preflight_ok |-> TRUE]

\* --mode, --max-loops, --completion-promise
LoopConfigs ==
  {<<"", 0, <<>> >>,
   <<"until_complete", 0, <<>> >>,
   <<"until_complete", -1, <<>> >>,
   <<"promise_or_max", 1, <<" ", "D", " ", " ", "X">> >>,
   <<"promise_or_max", 1, <<"<">> >>,
   <<"max_iterations", -1, <<>> >>}

\* the command lines of loop_job the model follows
LoopArgs ==
  {[DefaultArgs EXCEPT !.mode = c[1], !.max_loops = c[2], !.completion_promise = c[3]] :
     c \in LoopConfigs}
  \cup {[DefaultArgs EXCEPT !.allow_unmet_deps = TRUE, !.decision_note = n] :
          n \in {"", " ", "why"}}
  \cup {[DefaultArgs EXCEPT !.allow_unmet_deps = TRUE, !.decision_note = "why",
                            !.mode = "promise_or_max", !.max_loops = 1,
                            !.completion_promise = <<"<">>]}
  \cup {[DefaultArgs EXCEPT !.resume = TRUE], [DefaultArgs EXCEPT !.walltime = TRUE],
        [DefaultArgs EXCEPT !.preflight_ok = FALSE]}

\* the last message of the runner: no promise tag, or a tagged promise
Silent == [tagged |-> FALSE, inner |-> <<>>]

Messages ==
  {Silent, [tagged |-> TRUE, inner |-> <<"D", " ", "X", " ">>],
   [tagged |-> TRUE, inner |-> P_DONE]}

(***************************************************************************)
(* Spec: the three jobs of the chain under the lifecycle commands and      *)
(* invalidation.                                                           *)
(***************************************************************************)
Spec ==
  Init /\ [][\/ Agree
             \/ \E j \in Jobs : Work(j)
             \/ \E j \in Jobs : Revise(j)
             \/ \E j \in Jobs, a \in BOOLEAN, n \in {"", " "}, ns \in BOOLEAN : JobStart(j, a, n, ns)
             \/ \E j \in Jobs, c \in BOOLEAN : JobComplete(j, c, FALSE)
             \/ \E sc \in Jobs \cup {"all"}, ns \in BOOLEAN : InvalidateDownstream(sc, ns)]_vars

(***************************************************************************)
(* SpecLoop: job B is run by loop_job, with every command line of          *)
(* LoopArgs, after and next to the lifecycle of A and B.  The operator may *)
(* have removed the completion promise from the job plans.                 *)
(***************************************************************************)
LoopJobs == {"B"}

UpstreamJobs == {"A", "B"}

InitLoop ==
  /\ store \in {InitStore(TextualHigh, p) : p \in {P_DONE, <<>>}}
  /\ loop = IdleLoop
  /\ orch = EmptyProject

SpecLoop ==
  InitLoop /\ [][\/ Agree
                 \/ \E j \in UpstreamJobs : Work(j)
                 \/ Revise("A")
                 \/ \E j \in LoopJobs : WriteEvidence(j, "bad")
                 \/ \E j \in LoopJobs : PlaceCancel(j)
                 \/ \E j \in UpstreamJobs, a \in BOOLEAN, n \in {"", " ", "why"}, ns \in BOOLEAN :
                       JobStart(j, a, n, ns)
                 \/ \E j \in UpstreamJobs, c \in BOOLEAN : JobComplete(j, c, FALSE)
                 \/ \E sc \in {"A", "all"}, ns \in BOOLEAN : InvalidateDownstream(sc, ns)
                 \/ \E j \in LoopJobs, args \in LoopArgs : LoopBegin(j, args)
                 \/ \E w \in BOOLEAN : LoopTop(w)
                 \/ \E e \in ExitCodes, m \in Messages : LoopExec(e, m)]_vars

(***************************************************************************)
(* The loop at the end of the chain: loop_job runs on C, with or without   *)
(* the dependency override, while A and B are worked on by the commands.   *)
(***************************************************************************)
ChainLoopArgs ==
  {DefaultArgs, [DefaultArgs EXCEPT !.allow_unmet_deps = TRUE, !.decision_note = "why"]}

SpecChainLoop ==
  Init /\ [][\/ Agree
             \/ \E j \in Jobs : Work(j)
             \/ Redo("A")
             \/ \E j \in Jobs : JobStart(j, FALSE, "", FALSE)
             \/ \E j \in Jobs : JobComplete(j, FALSE, FALSE)
             \/ InvalidateDownstream("A", FALSE)
             \/ PlaceCancel("C")
             \/ \E args \in ChainLoopArgs : LoopBegin("C", args)
             \/ LoopTop(FALSE)
             \/ \E e \in {0, 7} : LoopExec(e, Silent)]_vars

(***************************************************************************)
(* loop_job run on job A, and run again after the first run has ended.     *)
(***************************************************************************)
RerunArgs ==
  {DefaultArgs, [DefaultArgs EXCEPT !.resume = TRUE],
   [DefaultArgs EXCEPT !.mode = "until_complete"], [DefaultArgs EXCEPT !.preflight_ok = FALSE]}

SpecRerun ==
  Init /\ [][\/ Agree
             \/ Work("A")
             \/ WriteEvidence("A", "bad")
             \/ PlaceCancel("A")
             \/ \E m \in {"strict", "off"},
                   c \in {{}, {"exists_nonempty"}, {"freshness", "verification_consistency"}} :
                   EditTruth("A", m, c)
             \/ \E args \in RerunArgs : LoopBegin("A", args)
             \/ \E args \in RerunArgs : LoopAgain("A", args)
             \/ \E w \in BOOLEAN : LoopTop(w)
             \/ \E e \in ExitCodes, m \in Messages : LoopExec(e, m)]_vars

(***************************************************************************)
(* The lifecycle with an operator who cancels jobs, who may withdraw the   *)
(* agreement and who takes the input snapshot of job B by hand:            *)
(* job_complete and workstream_complete with and without --cascade, and a  *)
(* plain loop_job on job A.                                                *)
(***************************************************************************)
SpecCascade ==
  Init /\ [][\/ Agree
             \/ Disagree
             \/ \E j \in Jobs : Work(j)
             \/ \E j \in Jobs : Cancel(j)
             \/ InputSnapshot("B")
             \/ \E j \in Jobs : JobStart(j, FALSE, "", FALSE)
             \/ \E j \in Jobs, c \in BOOLEAN : JobComplete(j, c, FALSE)
             \/ \E w \in WsIds, c \in BOOLEAN : WorkstreamComplete(w, c, FALSE)
             \/ LoopBegin("A", DefaultArgs)
             \/ LoopTop(FALSE)
             \/ LoopExec(0, Silent)]_vars

(***************************************************************************)
(* plan_sync.py run on plans whose statuses the operator wrote: every      *)
(* status of every job, workstream and the project is an input.            *)
(***************************************************************************)
InitRollup ==
  /\ store \in {[InitStore(TextualHigh, P_DONE) EXCEPT !.status = f, !.ws_status = g]
                  : f \in [Jobs -> STATUS_VALUES], g \in [WsIds -> STATUS_VALUES]}
  /\ loop = IdleLoop
  /\ orch = EmptyProject

\* plan_sync.py main
PlanSync ==
  /\ store' = sync_project_plans(store)
  /\ UNCHANGED <<loop, orch>>

SpecRollup == InitRollup /\ [][PlanSync]_vars

(***************************************************************************)
(* The lifecycle with a job_start that may be killed while it writes the   *)
(* job plan.  write_md is Path.write_text: the file is opened for writing, *)
(* which empties it, and the text is written afterwards.  A process killed *)
(* in between leaves the empty file, which read_md reads as a record       *)
(* without any field, so that every reader sees its defaults.  (Killed     *)
(* before the file is opened the command is a stuttering step, killed      *)
(* after the text is written it is JobStart without its sync.)             *)
(***************************************************************************)
JobStartKilled(wi) ==
  /\ loop.pc = "idle"
  /\ job_start(store, wi, FALSE, "", TRUE).rc = 0
  /\ store' = [store EXCEPT !.status[wi] = "planned",
                            !.completed_at[wi] = FALSE,
                            !.started_at[wi] = 0,
                            !.iteration[wi] = 0,
                            !.reward_last_score[wi] = 0,
                            !.reward_last_eval_at[wi] = FALSE,
                            !.truth_mode[wi] = "strict",
                            !.truth_checks[wi] = {},
                            !.truth_last_status[wi] = "",
                            !.truth_last_failures[wi] = <<>>,
                            !.truth_input_snapshot[wi] = FALSE,
                            !.progress_log[wi] = "",
                            !.completion_promise[wi] = <<>>,
                            !.loop_mode[wi] = "",
                            !.loop_max_iterations[wi] = 0,
                            !.loop_target_promise[wi] = <<>>,
                            !.loop_status[wi] = "",
                            !.loop_stop_reason[wi] = "",
                            !.loop_last_attempt[wi] = 0]
  /\ UNCHANGED <<loop, orch>>

SpecCrash ==
  Init /\ [][\/ Agree
             \/ \E j \in Jobs : Work(j)
             \/ \E j \in Jobs : JobStart(j, FALSE, "", FALSE)
             \/ \E j \in Jobs : JobComplete(j, FALSE, FALSE)
             \/ \E j \in Jobs : JobStartKilled(j)]_vars

(***************************************************************************)
(* Two commands at once.  No script takes a lock, and every write of a     *)
(* plan is read_md, change the fields, write_md of the whole file.         *)
(* job_complete on j scores every job of the project (reward_eval.py       *)
(* lines 317-340: doc = read_md(plan_path) ... write_md(plan_path, doc)    *)
(* for each job in directory order); job_start on k, another job of the    *)
(* same wave, may run between the read and the write of k's plan.          *)
(***************************************************************************)
\* job_complete on j, with job_start on k run whole between reward_eval's
\* read_md and write_md of k's plan: [store, rc]
complete_over_start(s, j, k, no_sync) ==
  LET pre == [input_snapshot(complete_prepare(s, j), j)
                EXCEPT !.progress_log[j] = "job_complete: attempting completion"]
      re == reward_eval(pre)
      \* the jobs whose plans reward_eval has written when it comes to k
      scored_before == {x \in Jobs : <<x, k>> \in {<<"A", "B">>, <<"A", "C">>, <<"B", "C">>}}
      part(f, g) == [x \in Jobs |-> IF x \in scored_before THEN f[x] ELSE g[x]]
      \* what job_start on k finds: the jobs before k are scored, k is not
      found == [pre EXCEPT
                  !.reward_last_score = part(re.reward_last_score, @),
                  !.reward_last_eval_at = part(re.reward_last_eval_at, @),
                  !.status = part(re.status, @),
                  !.progress_log = part(re.progress_log, @),
                  !.truth_last_status = part(re.truth_last_status, @),
                  !.truth_last_failures = part(re.truth_last_failures, @)]
      started == job_start(found, k, FALSE, "", no_sync).store
      \* write_md(plan_path, doc) of k: the record read before job_start ran,
      \* with its reward fields; the other plans are written as read
      written == [re EXCEPT !.ws_status = started.ws_status,
                            !.ws_completed_at = started.ws_completed_at,
                            !.proj_status = started.proj_status,
                            !.proj_completed_at = started.proj_completed_at,
                            !.decisions = started.decisions]
  IN complete_decide(truth_eval(written), j, s.status[j], FALSE, FALSE)

\* job_complete on j and job_start on k started together, j and k in the
\* scheduler's first wave (runnable, waiting for no dependency): one after
\* the other in either order, or the start inside the scoring of k
RaceCompleteStart(j, k, no_sync) ==
  /\ loop.pc = "idle"
  /\ loop.runs < MaxRuns
  /\ store.iteration[k] < MaxIter
  /\ j # k
  /\ \A x \in {j, k} : /\ store.status[x] \in RUNNABLE_STATUSES
                        /\ unmet_dependencies(store, x) = {}
  /\ job_start(store, k, FALSE, "", no_sync).rc = 0
  /\ \E outcome \in {"complete_first", "start_first", "start_inside"} :
       store' = CASE outcome = "complete_first" ->
                       job_start(job_complete(store, j, FALSE, FALSE).store,
                                 k, FALSE, "", no_sync).store
                  [] outcome = "start_first" ->
                       job_complete(job_start(store, k, FALSE, "", no_sync).store,
                                    j, FALSE, FALSE).store
                  [] outcome = "start_inside" ->
                       complete_over_start(store, j, k, no_sync).store
  /\ loop' = Forget(loop)
  /\ UNCHANGED orch

\* a project whose jobs A and B depend on nothing, and C on both
InitRace ==
  /\ store = [InitStore(TextualHigh, P_DONE)
               EXCEPT !.depends_on = ("A" :> {}) @@ ("B" :> {}) @@ ("C" :> {"A", "B"})]
  /\ loop = IdleLoop
  /\ orch = EmptyProject

SpecRace ==
  InitRace /\ [][\/ Agree
                 \/ \E j \in Jobs : Work(j)
                 \/ \E j \in Jobs : JobStart(j, FALSE, "", FALSE)
                 \/ \E j, k \in Jobs, ns \in BOOLEAN : RaceCompleteStart(j, k, ns)]_vars

(***************************************************************************)
(* The scheduler's project: jobs are added with job_add, lifecycle         *)
(* commands change their status, and the scheduler and the graph builder   *)
(* are run on what is there.                                               *)
(***************************************************************************)
MaxDeps == 4

MaxDepsPerJob == 2

MaxLong == 2

\* the --depends-on lists: the last job is nobody's dependency
DependsOnChoices == UNION {[1..len -> {"A", "B", "C"}] : len \in 0..MaxDepsPerJob}

NotRun == orch.payload.schema = "" /\ orch.graph.schema = ""

\* job_add --depends-on ... --estimate-hours ...
JobAdd(deps, estimate_hours) ==
  /\ NotRun
  /\ orch.n < Len(NodeOrder)
  /\ Len(deps) + Cardinality({p \in (1..orch.n) \X (1..MaxDepsPerJob) :
                                p[2] <= Len(orch.depends_on[p[1]])}) <= MaxDeps
  /\ estimate_hours # 1 =>
       Cardinality({i \in 1..orch.n : orch.estimate_hours[i] # 1}) < MaxLong
  /\ orch' = [orch EXCEPT !.n = @ + 1,
                          !.status = Append(@, "planned"),
                          !.estimate_hours = Append(@, estimate_hours),
                          !.depends_on = Append(@, deps)]
  /\ UNCHANGED <<store, loop>>

\* a lifecycle command or the operator leaves job i with another status
SetStatus(i, status) ==
  /\ NotRun
  /\ i \in 1..orch.n
  /\ orch.status[i] = "planned"
  /\ orch' = [orch EXCEPT !.status[i] = status]
  /\ UNCHANGED <<store, loop>>

\* the operator edits subagent_policy in the project plan
SetPolicy(policy) ==
  /\ NotRun
  /\ orch.n = 0
  /\ orch.subagent_policy = "auto"
  /\ orch' = [orch EXCEPT !.subagent_policy = policy]
  /\ UNCHANGED <<store, loop>>

\* the environment of an orchestrate_plan run
NoEnv ==
  [THEWORKSHOP_SUBAGENT_POLICY |-> "", THEWORKSHOP_NO_SUBAGENTS |-> "",
   THEWORKSHOP_MAX_PARALLEL_AGENTS |-> [set |-> FALSE, int |-> 0]]

OrchEnvs ==
  {NoEnv,
   [NoEnv EXCEPT !.THEWORKSHOP_SUBAGENT_POLICY = "Serial"],
   [NoEnv EXCEPT !.THEWORKSHOP_NO_SUBAGENTS = "1",
                 !.THEWORKSHOP_MAX_PARALLEL_AGENTS = [set |-> TRUE, int |-> 2]],
   [NoEnv EXCEPT !.THEWORKSHOP_MAX_PARALLEL_AGENTS = [set |-> TRUE, int |-> 2]]}

Orchestrate(env) ==
  /\ orch.payload.schema = ""
  /\ orch' = [orch EXCEPT !.payload = orchestrate(orch, env)]
  /\ UNCHANGED <<store, loop>>

DependencyGraph ==
  /\ orch.graph.schema = ""
  /\ orch' = [orch EXCEPT !.graph = dependency_graph(orch)]
  /\ UNCHANGED <<store, loop>>

\* project_new has run, no job has been added
InitOrch ==
  /\ store = InitStore(TextualHigh, P_DONE)
  /\ loop = IdleLoop
  /\ orch = EmptyProject

\* the waves: every job is estimated at the default hour, job A changes status
SpecOrch ==
  InitOrch /\ [][\/ \E deps \in DependsOnChoices : JobAdd(deps, 1)
                 \/ \E status \in {"in_progress", "done", "cancelled"} : SetStatus(1, status)
                 \/ SetPolicy("manual")
                 \/ \E env \in OrchEnvs : Orchestrate(env)]_vars

\* the critical path: the jobs stay planned, their estimates differ
SpecGraph ==
  InitOrch /\ [][\/ \E deps \in DependsOnChoices,
                       estimate_hours \in {1, 3} : JobAdd(deps, estimate_hours)
                 \/ Orchestrate(NoEnv)
                 \/ DependencyGraph]_vars

(***************************************************************************)
(* Claims.                                                                 *)
(***************************************************************************)
\* the gates of a completion, read in state s
GatesHold(s, j) ==
  /\ \A d \in depends_on[j] : s.status[d] = "done"
  /\ s.truth_last_status[j] = "pass"
  /\ s.reward_last_score[j] >= reward_target
  /\ file_exists_nonempty(s.out[j])
  /\ evidence_exists_nonempty(s.evid[j])

\* C1: whatever command moves a job to `done` (job_complete, or loop_job through
\* it), the job's dependencies are all done, its truth status is pass, its reward
\* score reaches the target, and its output and evidence files exist non-empty.
C1_DoneOnlyThroughGates ==
  [][\A j \in Jobs :
       (store.status[j] # "done" /\ store'.status[j] = "done") => GatesHold(store', j)]_vars

\* A was completed by job_complete and B by a loop run
C1_Witness ==
  /\ store.status["A"] = "done"
  /\ store.progress_log["A"] = "job_complete: gate PASSED"
  /\ store.status["B"] = "done"
  /\ store.loop_status["B"] = "completed"

\* C2: whenever job_complete fails a gate (the dependency gate or any gate of
\* gating_errors), whatever status the job had before, the job is not `done` and
\* its completed_at is empty when the command returns.
C2_FailedCompleteLeavesNotDone ==
  [][\A wi \in Jobs, cascade \in BOOLEAN :
       (/\ JobComplete(wi, cascade, FALSE)
        /\ complete_outcome(store, wi) \in {"dep_gate_failed", "gate_failed"})
       => (store'.status[wi] # "done" /\ ~store'.completed_at[wi])]_vars

\* a declared output of job a was rewritten after the done job j recorded it:
\* the fingerprint j's snapshot holds for a is not the one a's output has now
mutated_since(s, a, j) ==
  /\ s.status[j] = "done"
  /\ s.snapshot[j].present
  /\ a \in DOMAIN s.snapshot[j].entries
  /\ s.snapshot[j].entries[a] # output_fingerprint(s.out[a])

\* C3: when an output of job a was mutated after a done consumer recorded it,
\* an invalidate_downstream run scoped to a leaves no job of a's reverse
\* dependency closure (direct or indirect dependent) in status `done`.
C3_InvalidationReachesClosure ==
  [][\A a \in Jobs, no_sync \in BOOLEAN :
       (/\ InvalidateDownstream(a, no_sync)
        /\ \E j \in build_reverse_deps(a) : mutated_since(store, a, j))
       => \A j \in downstream_closure(a) : store'.status[j] # "done"]_vars

\* C4: when an output of job a was mutated after its direct consumer j became
\* done, an invalidate_downstream run scoped to a moves j from done to blocked,
\* clears its completed_at, sets its truth status to fail with the reason of the
\* snapshot mismatch, and appends the audit line to its progress log.
C4_DirectConsumerBlocked ==
  [][\A a \in Jobs : \A j \in build_reverse_deps(a) :
       (/\ mutated_since(store, a, j)
        /\ \E no_sync \in BOOLEAN : InvalidateDownstream(a, no_sync))
            => /\ store'.status[j] = "blocked"
               /\ ~store'.completed_at[j]
               /\ store'.truth_last_status[j] = "fail"
               /\ \E reason \in {"exists changed", "hash changed", "mtime changed"} :
                    store'.truth_last_failures[j] = << <<"freshness_inputs", reason>> >>
               /\ store'.progress_log[j] = "invalidate_downstream: done -> blocked"]_vars

\* B was done on an older output of A and has just been invalidated
C4_Witness ==
  /\ store.status["B"] = "blocked"
  /\ store.progress_log["B"] = "invalidate_downstream: done -> blocked"
  /\ store.truth_last_failures["B"] = << <<"freshness_inputs", "hash changed">> >>
  /\ store.snapshot["B"].entries["A"] # output_fingerprint(store.out["A"])

\* job j has a stored snapshot and it matches the current outputs of every
\* dependency of j, as compare_snapshot judges it
snapshot_matches(s, j) ==
  /\ s.truth_input_snapshot[j]
  /\ s.snapshot[j].present
  /\ compare_snapshot(make_current_input_entries(s, j), s.snapshot[j])[1]

\* C5: a done job has a stored snapshot that matches the current outputs of all
\* its dependencies as long as no dependency output changed since it completed:
\* the snapshot matches at the step that makes the job done, and every later
\* step that leaves the job done and the dependency outputs alone keeps it so.
C5_DoneSnapshotMatches ==
  [][\A j \in Jobs :
       (/\ store'.status[j] = "done"
        /\ \A d \in depends_on[j] : store'.out[d] = store.out[d]
        /\ store.status[j] = "done" => snapshot_matches(store, j))
       => snapshot_matches(store', j)]_vars

\* B completed a second time, after A's output was rewritten, and C completed on B
C5_Witness ==
  /\ store.status["B"] = "done"
  /\ store.out["A"].ver = 2
  /\ snapshot_matches(store, "B")
  /\ store.status["C"] = "done"
  /\ snapshot_matches(store, "C")

\* a step of a command that ran to its end with syncing enabled: job_start that
\* started the job, job_complete that was not refused, invalidate_downstream
\* that staled a job, or a loop run that reached its terminal transition
C6_SyncedCommandStep ==
  \/ \E j \in Jobs, a \in BOOLEAN, n \in {"", " ", "why"} :
       /\ job_start(store, j, a, n, FALSE).rc = 0
       /\ JobStart(j, a, n, FALSE)
  \/ \E j \in Jobs, c \in BOOLEAN :
       /\ complete_outcome(store, j) # "refused"
       /\ JobComplete(j, c, FALSE)
  \/ \E sc \in Jobs \cup {"all"} :
       /\ stale_jobs(store, IF sc = "all" THEN Jobs ELSE downstream_closure(sc)) # {}
       /\ InvalidateDownstream(sc, FALSE)
  \/ loop.pc # "idle" /\ loop'.pc = "idle"

\* C6: after job_start, job_complete, an invalidate_downstream that stales a
\* job, or a loop run returns, all with syncing enabled, every workstream's
\* stored status is the rollup of its jobs and the project's stored status is
\* the rollup of its workstreams: plan_check finds no stored-versus-computed
\* mismatch.  (Stated contrapositively: a step that ends in a mismatch is none
\* of these commands.)
C6_RollupsConsistentAfterSync ==
  [][rollup_mismatch(store') => ~C6_SyncedCommandStep]_vars

\* a loop run returned blocked after a job_start without sync had left the
\* stored rollups behind, and the rollups are consistent again
C6_Witness ==
  /\ loop.pc = "idle"
  /\ loop.loop_status = "blocked"
  /\ store.status["B"] = "in_progress"
  /\ store.status["A"] = "done"
  /\ store.ws_status["WS1"] = "in_progress"
  /\ store.proj_status = "in_progress"
  /\ ~rollup_mismatch(store)

\* the override is given and its note holds more than white space
C7_Justified(allow_unmet_deps, decision_note) ==
  allow_unmet_deps /\ decision_note \notin {"", " "}

\* job_start.py on a job with a dependency that is not done
C7_JobStartGate(j) ==
  \A a \in BOOLEAN, n \in {"", " ", "why"}, ns \in BOOLEAN :
    LET r == job_start(store, j, a, n, ns)
    IN IF C7_Justified(a, n)
         THEN r.rc = 0 => /\ r.store.status[j] = "in_progress"
                          /\ <<"dependency override", j>> \in r.store.decisions
         ELSE r.rc # 0 /\ r.store = store

\* loop_job.py, which starts the job through job_start.py
C7_LoopStartGate(j) ==
  \A args \in LoopArgs :
    LET r == loop_begin(store, j, args)
    IN IF C7_Justified(args.allow_unmet_deps, args.decision_note)
         THEN r.loop.pc = "top" => <<"dependency override", j>> \in r.store.decisions
         ELSE r.loop.loop_status = "aborted" /\ r.store = store

\* C7: in every reachable state, starting a job that has a dependency which is
\* not done (job_start itself, or job_start run by loop_job) succeeds only with
\* the override and a note that is not empty, and then the override is in the
\* project decision log; without the override, or with an empty note, the
\* command is refused and leaves the job as it was.
C7_UnmetStartNeedsOverride ==
  \A j \in Jobs :
    unmet_dependencies(store, j) # {} => C7_JobStartGate(j) /\ C7_LoopStartGate(j)

\* B was started over its dependency A, which is not done, and the override is logged
C7_Witness ==
  /\ store.status["B"] = "in_progress"
  /\ store.status["A"] # "done"
  /\ store.progress_log["B"] = "job_start"
  /\ <<"dependency override", "B">> \in store.decisions

\* the loop process has just ended `completed`
C8_Completed == loop.pc = "idle" /\ loop.loop_status = "completed"

\* the gates passed on the last attempt and the job is ready but for the promise
C8_GatesAndFiles ==
  /\ loop.gates = "passed"
  /\ store.reward_last_score[loop.wi] >= reward_target
  /\ store.truth_last_status[loop.wi] = "pass"
  /\ file_exists_nonempty(store.out[loop.wi])
  /\ evidence_exists_nonempty(store.evid[loop.wi])

C8_PromiseMatches ==
  normalize_promise(loop.last_promise) = normalize_promise(loop.completion_promise)

\* C8 as stated: the loop ends `completed` only after an attempt whose gates
\* passed, with the score at the target, truth pass, output and evidence
\* present and, in the modes until_complete and promise_or_max, the runner's
\* last promise equal to the target promise after whitespace normalization.
C8_CompletedOnlyWithPromise ==
  C8_Completed
  => /\ C8_GatesAndFiles
     /\ loop.mode \in {"until_complete", "promise_or_max"} => C8_PromiseMatches

\* C8, amended: as above, but the promise is compared only when a target
\* promise is configured; in a promise mode without a target promise (accepted
\* when the cap is positive) the loop completes whatever the runner emitted.
C8_CompletedOnlyWhenReady ==
  C8_Completed
  => /\ C8_GatesAndFiles
     /\ (loop.mode \in {"until_complete", "promise_or_max"} /\ loop.completion_promise # <<>>)
          => C8_PromiseMatches

\* completed in the mode promise_or_max; the target and the emitted promise
\* differ in their blanks only
C8_Witness ==
  /\ C8_Completed
  /\ loop.mode = "promise_or_max"
  /\ loop.completion_promise = <<"D", " ", " ", "X">>
  /\ loop.last_promise = <<"D", " ", "X">>
  /\ store.status[loop.wi] = "done"

\* C9: every loop run works under a finite attempt cap: while the loop process
\* runs, its cap max_loops is a positive number and the runner has been invoked
\* at most max_loops times in this run.
C9_FiniteAttemptCap ==
  loop.pc # "idle" => (loop.max_loops >= 1 /\ loop.invocations <= loop.max_loops)

\* the literal stop reason of a runner exit code
C10_Reason(n) == IF n = 1 THEN "exit_code_1" ELSE "exit_code_7"

\* C10: when the runner returns a nonzero exit code n, the loop ends at once as
\* `error` with stop reason exit_code_<n>: the gates are not run, no further
\* attempt is made, the process exits with n, and the job stays in_progress.
C10_RunnerErrorEndsLoop ==
  [][\A n \in ExitCodes \ {0} :
       (\E m \in Messages : LoopExec(n, m))
       => /\ loop'.pc = "idle"
          /\ loop'.loop_status = "error"
          /\ loop'.stop_reason = C10_Reason(n)
          /\ loop'.exit_code = n
          /\ loop'.gates = ""
          /\ loop'.invocations = loop.invocations + 1
          /\ loop'.attempt = loop.attempt
          /\ store'.loop_status[loop.wi] = "error"
          /\ store'.loop_stop_reason[loop.wi] = C10_Reason(n)
          /\ store'.status[loop.wi] = "in_progress"
          /\ store'.reward_last_eval_at = store.reward_last_eval_at
          /\ store'.truth_last_status = store.truth_last_status]_vars

\* the runner exited 7 on the second attempt of a run
C10_Witness ==
  /\ loop.pc = "idle"
  /\ loop.loop_status = "error"
  /\ loop.stop_reason = "exit_code_7"
  /\ loop.exit_code = 7
  /\ loop.invocations = 2
  /\ store.status["B"] = "in_progress"
  /\ store.loop_stop_reason["B"] = "exit_code_7"

\* the outcome the loop process ended with
C11_Ended(l, loop_status, stop_reason) ==
  l.pc = "idle" /\ l.loop_status = loop_status /\ l.stop_reason = stop_reason

\* C11: before each attempt the stop conditions are checked in a fixed order:
\* wall time exceeded gives blocked/timeout; else the attempt counter above the
\* cap gives blocked/max_iterations; else a cancel marker gives stopped/cancel;
\* the first that holds decides, and the runner is not invoked.  Otherwise the
\* attempt begins.
C11_StopOrder ==
  [][\A w \in BOOLEAN :
       LoopTop(w)
       => IF loop.walltime /\ w
            THEN C11_Ended(loop', "blocked", "timeout")
                 /\ loop'.invocations = loop.invocations
          ELSE IF loop.attempt > loop.max_loops
            THEN C11_Ended(loop', "blocked", "max_iterations")
                 /\ loop'.invocations = loop.invocations
          ELSE IF loop.wi \in store.cancel
            THEN C11_Ended(loop', "stopped", "cancel")
                 /\ loop'.invocations = loop.invocations
          ELSE loop'.pc = "exec"]_vars

\* the loop process has exited from a terminal loop outcome
C12_Returned ==
  loop.pc = "idle" /\ loop.loop_status \in {"completed", "error", "blocked", "stopped"}

\* C12 as stated: the process exit code is 0 when the loop ends completed, the
\* exit code of the external runner when it ends error, and 1 when it ends
\* blocked or stopped.
C12_ExitCodeIsRunnerCode ==
  C12_Returned
  => loop.exit_code = CASE loop.loop_status = "completed" -> 0
                        [] loop.loop_status = "error" -> loop.result_exit_code
                        [] OTHER -> 1

\* C12, amended: 0 when completed, 1 when blocked or stopped; when the loop
\* ends error, the runner's exit code if the runner exited nonzero, and
\* otherwise (the runner exited 0 and job_complete failed) the nonzero exit
\* code of job_complete.
C12_ExitCodeByOutcome ==
  C12_Returned
  => CASE loop.loop_status = "completed" -> loop.exit_code = 0
       [] loop.loop_status = "error" ->
            IF loop.result_exit_code # 0
              THEN loop.exit_code = loop.result_exit_code
              ELSE loop.stop_reason = "job_complete_failed" /\ loop.exit_code = 1
       [] OTHER -> loop.exit_code = 1

\* the runner exited 0, the gates and the readiness test passed, and
\* job_complete refused C because its dependency B had been invalidated
C12_Witness ==
  /\ C12_Returned
  /\ loop.loop_status = "error"
  /\ loop.stop_reason = "job_complete_failed"
  /\ loop.result_exit_code = 0
  /\ loop.exit_code = 1
  /\ store.status["B"] = "blocked"

LOOP_TERMINAL == {"completed", "blocked", "stopped", "error"}

\* C13 as stated: once a job's loop status is completed, blocked, stopped or
\* error, no later operation returns it to active.
C13_TerminalNeverActive ==
  [][\A j \in Jobs :
       store.loop_status[j] \in LOOP_TERMINAL => store'.loop_status[j] # "active"]_vars

\* C13, amended: a loop run that has left active has ended (the process has
\* exited with that status), and a job's stored loop status returns from a
\* terminal status to active only by a new run of loop_job on that job, which
\* marks it active at its start.
C13_TerminalUntilNewRun ==
  [][/\ loop'.loop_status \in LOOP_TERMINAL => loop'.pc = "idle"
     /\ \A j \in Jobs :
          (store.loop_status[j] \in LOOP_TERMINAL /\ store'.loop_status[j] = "active")
          => /\ loop.pc = "idle"
             /\ loop'.runs = loop.runs + 1
             /\ loop'.wi = j]_vars

\* the first run on A ran the gates on an attempt and ended; the second run
\* has marked the job active and has not yet invoked the runner
C13_Witness ==
  /\ loop.runs = 2
  /\ loop.pc = "top"
  /\ loop.wi = "A"
  /\ loop.invocations = 0
  /\ store.reward_last_eval_at["A"]
  /\ store.loop_status["A"] = "active"

(***************************************************************************)
(* C14: a loop_job run that finds the cancel marker before its first       *)
(* attempt ends stopped/cancel without invoking the runner, and it uses up *)
(* none of the job's attempts: a run of loop_job begun after it starts at  *)
(* the attempt number it would have started at before it.                  *)
(***************************************************************************)
C14_CancelledBeforeFirstAttempt ==
  /\ loop.pc = "top" /\ loop.invocations = 0 /\ loop.wi \in store.cancel
  /\ loop'.pc = "idle" /\ loop'.loop_status = "stopped" /\ loop'.stop_reason = "cancel"

C14_CancelBeforeStartCountsNothing ==
  [][C14_CancelledBeforeFirstAttempt =>
       /\ loop'.invocations = 0
       /\ \A resume \in BOOLEAN :
            start_attempt(store', loop.wi, resume) = start_attempt(store, loop.wi, resume)]_vars

(***************************************************************************)
(* The scheduler and the graph builder.                                    *)
(***************************************************************************)
\* the jobs that wi depends on, directly or through other jobs
Ancestors(jobs, wi) ==
  LET parents(S) == {dep \in DOMAIN jobs : \E x \in S : dep \in Elems(jobs[x].depends_on)}
      RECURSIVE up(_, _)
      up(S, k) == IF k = 0 THEN S ELSE up(S \cup parents(S), k - 1)
  IN up(parents({wi}), Cardinality(DOMAIN jobs))

Acyclic(jobs) == \A wi \in DOMAIN jobs : wi \notin Ancestors(jobs, wi)

Orchestrated == orch.payload.schema # ""

\* the waves that hold wi, by index
WavesOf(wi) == {k \in DOMAIN orch.payload.groups : wi \in Elems(orch.payload.groups[k])}

(***************************************************************************)
(* C15: when the job set has no dependency cycle, the waves that           *)
(* orchestrate_plan writes are a topological order: every dependency of a  *)
(* scheduled job that is in the active set is in a strictly earlier wave.  *)
(***************************************************************************)
C15_WavesAreTopological ==
  (Orchestrated /\ Acyclic(scan_jobs(orch))) =>
    LET jobs == scan_jobs(orch)
    IN \A wi \in DOMAIN jobs : \A k \in WavesOf(wi) :
         \A dep \in Elems(jobs[wi].depends_on) :
           (dep \in DOMAIN jobs /\ jobs[dep].status \in RUNNABLE_STATUSES) =>
             \E m \in WavesOf(dep) : m < k

\* the four-job diamond comes out in three waves
C15_Witness ==
  /\ Orchestrated
  /\ orch.depends_on = <<<<>>, <<"A">>, <<"A">>, <<"B", "C">>>>
  /\ orch.payload.groups = <<<<"A">>, <<"B", "C">>, <<"D">>>>

(***************************************************************************)
(* C16: no wave holds more jobs than the effective concurrency limit, and  *)
(* when the policy selected by the project plan or by the environment      *)
(* override is serial, manual or off, the effective limit is 1 and every   *)
(* wave holds exactly one job.                                             *)
(***************************************************************************)
C16_SerialSelected ==
  \/ orch.payload.subagents_disabled_env
  \/ orch.payload.subagent_policy_env_override \in {"serial", "manual", "off"}
  \/ /\ orch.payload.subagent_policy_env_override = ""
     /\ orch.subagent_policy \in {"serial", "manual", "off"}

C16_WavesWithinLimit ==
  Orchestrated =>
    /\ \A k \in DOMAIN orch.payload.groups :
         /\ orch.payload.groups[k] # <<>>
         /\ Len(orch.payload.groups[k]) <= orch.payload.max_parallel_agents.effective
    /\ C16_SerialSelected =>
         /\ orch.payload.max_parallel_agents.effective = 1
         /\ \A k \in DOMAIN orch.payload.groups : Len(orch.payload.groups[k]) = 1

\* three independent jobs under a manual project policy: one wave each
C16_Witness ==
  /\ Orchestrated
  /\ orch.subagent_policy = "manual"
  /\ orch.payload.subagent_policy_env_override = ""
  /\ ~orch.payload.subagents_disabled_env
  /\ orch.payload.max_parallel_agents.configured = 3
  /\ orch.payload.groups = <<<<"A">>, <<"B">>, <<"C">>>>

\* the active jobs that the scheduler takes into its first frontier
Schedulable == Elems(first_frontier(blocked_reasons(scan_jobs(orch))))

ActiveJobs == {wi \in DOMAIN scan_jobs(orch) : scan_jobs(orch)[wi].status \in RUNNABLE_STATUSES}

(***************************************************************************)
(* C17: an active job is immediately schedulable exactly when none of its  *)
(* dependencies is missing from the job set and none is in the active set; *)
(* a dependency outside the active set, done or cancelled, does not block. *)
(***************************************************************************)
C17_SchedulableUnlessMissingOrActive ==
  Orchestrated =>
    \A wi \in ActiveJobs :
      wi \in Schedulable <=>
        \A dep \in Elems(scan_jobs(orch)[wi].depends_on) :
          dep \in DOMAIN scan_jobs(orch) /\ dep \notin ActiveJobs

\* C17, as the code has it: an active job is immediately schedulable exactly
\* when every one of its dependencies is in the job set and done; a dependency
\* that is neither done nor active (a cancelled job) blocks it as not done.
C17_SchedulableWhenAllDone ==
  Orchestrated =>
    \A wi \in ActiveJobs :
      wi \in Schedulable <=>
        \A dep \in Elems(scan_jobs(orch)[wi].depends_on) :
          dep \in DOMAIN scan_jobs(orch) /\ scan_jobs(orch)[dep].status = "done"

\* B waits for the cancelled A and is reported with A as a not-done dependency,
\* while C, which depends on nothing, is runnable now
C17_Witness ==
  /\ Orchestrated
  /\ orch.n = 3
  /\ orch.status[1] = "cancelled"
  /\ orch.depends_on = <<<<>>, <<"A">>, <<>>>>
  /\ orch.payload.runnable_now = <<"C">>
  /\ "B" \in DOMAIN orch.payload.blocked_jobs
  /\ orch.payload.blocked_jobs["B"].not_done_dependencies = {"A"}

(***************************************************************************)
(* C18: every active job is either in exactly one wave, or in the          *)
(* blocked-jobs report with at least one reason that is not empty (a       *)
(* missing, a not-done, or a pending or cyclic dependency); none is left   *)
(* out of both.                                                            *)
(***************************************************************************)
C18_ReportedWithReason(wi) ==
  /\ wi \in DOMAIN orch.payload.blocked_jobs
  /\ \/ orch.payload.blocked_jobs[wi].missing_dependencies # {}
     \/ orch.payload.blocked_jobs[wi].not_done_dependencies # {}
     \/ orch.payload.blocked_jobs[wi].pending_or_cyclic_dependencies # {}

C18_ScheduledOrReported ==
  Orchestrated =>
    \A wi \in ActiveJobs :
      \/ Cardinality(WavesOf(wi)) = 1 /\ wi \notin DOMAIN orch.payload.blocked_jobs
      \/ WavesOf(wi) = {} /\ C18_ReportedWithReason(wi)

Graphed == orch.graph.schema # ""

\* the dependency paths that lead from a job without dependencies in the job
\* set to a job that no job depends on
RootToLeafPaths(jobs) ==
  LET edges == all_edges(jobs)
      RECURSIVE extend(_, _)
      extend(P, k) ==
        IF k = 0 THEN P
        ELSE extend(P \cup {Append(x[1], x[2][2]) :
                              x \in {x \in P \X edges : x[2][1] = x[1][Len(x[1])]}},
                    k - 1)
  IN {p \in extend({<<r>> : r \in {n \in DOMAIN jobs : ~\E e \in edges : e[2] = n}},
                   Cardinality(DOMAIN jobs)) :
        ~\E e \in edges : e[1] = p[Len(p)]}

\* the sum of estimate_hours along a path
RECURSIVE PathHours(_, _)
PathHours(jobs, p) ==
  IF p = <<>> THEN 0 ELSE jobs[Head(p)].estimate_hours + PathHours(jobs, Tail(p))

(***************************************************************************)
(* C19: for an acyclic job graph the critical-path total that the          *)
(* scheduler and the graph builder report is the greatest sum of           *)
(* estimate_hours over the root-to-leaf dependency paths, and the reported *)
(* path is one of these paths, made of real dependency edges, with that    *)
(* sum.                                                                    *)
(***************************************************************************)
C19_IsLongest(cp) ==
  LET jobs == scan_jobs(orch)
      paths == RootToLeafPaths(jobs)
  IN /\ cp.available
     /\ IF paths = {} THEN cp.work_items = <<>> /\ cp.total_estimate_hours = 0
        ELSE /\ cp.work_items \in paths
             /\ PathHours(jobs, cp.work_items) = cp.total_estimate_hours
             /\ \A p \in paths : PathHours(jobs, p) <= cp.total_estimate_hours

C19_CriticalPathIsLongest ==
  Acyclic(scan_jobs(orch)) =>
    /\ Orchestrated => C19_IsLongest(orch.payload.critical_path)
    /\ Graphed => C19_IsLongest(orch.graph.critical_path)

\* the four-job example: A(1), B(1) and C(3) on A, D(1) on B and C
C19_Witness ==
  /\ Orchestrated /\ Graphed
  /\ orch.depends_on = <<<<>>, <<"A">>, <<"A">>, <<"B", "C">>>>
  /\ orch.estimate_hours = <<1, 1, 3, 1>>
  /\ orch.payload.critical_path.work_items = <<"A", "C", "D">>
  /\ orch.payload.critical_path.total_estimate_hours = 5
  /\ orch.graph.critical_path.work_items = <<"A", "C", "D">>
  /\ orch.graph.critical_path.total_estimate_hours = 5

(***************************************************************************)
(* C20: when the job graph has a dependency cycle, the scheduler and the   *)
(* graph builder both run to their end and report the critical path as     *)
(* unavailable: no path, zero hours, available false.  A run that has not  *)
(* been made yet would end with the same report.                           *)
(***************************************************************************)
C20_Unavailable(cp) ==
  cp.work_items = <<>> /\ cp.total_estimate_hours = 0 /\ ~cp.available

C20_CycleMakesPathUnavailable ==
  ~Acyclic(scan_jobs(orch)) =>
    /\ Orchestrated => C20_Unavailable(orch.payload.critical_path)
    /\ Graphed => C20_Unavailable(orch.graph.critical_path)
    /\ ~Orchestrated => C20_Unavailable(orchestrate(orch, NoEnv).critical_path)
    /\ ~Graphed => C20_Unavailable(dependency_graph(orch).critical_path)

\* A and B depend on each other, C is outside the cycle
C20_Witness ==
  /\ Orchestrated /\ Graphed
  /\ orch.n = 3
  /\ orch.depends_on = <<<<"B">>, <<"A">>, <<>>>>
  /\ orch.graph.cycle_nodes = <<"A", "B">>
  /\ ~orch.payload.critical_path.available
  /\ ~orch.graph.critical_path.available

(***************************************************************************)
(* C21: after a job_complete --cascade that succeeded, the parent          *)
(* workstream is done exactly when all its jobs are done, the project is   *)
(* done exactly when all its workstreams are done, and the stored parent   *)
(* statuses are the rollups and pass the parent checks of plan_check (the  *)
(* done gates and the rollup comparison).                                  *)
(***************************************************************************)
C21_CascadeCompletesParents ==
  [][\A j \in Jobs :
       (job_complete(store, j, TRUE, FALSE).rc = 0 /\ JobComplete(j, TRUE, FALSE)) =>
         LET w == parent_workstream(j)
             t == store'
         IN  /\ t.ws_status[w] = "done" <=> \A k \in WsJobs[w] : t.status[k] = "done"
             /\ t.proj_status = "done" <=> \A v \in WsIds : t.ws_status[v] = "done"
             /\ \A v \in WsIds :
                  t.ws_status[v] = "done" => \A k \in WsJobs[v] : t.status[k] = "done"
             /\ ~rollup_mismatch(t)]_vars

\* a failure of the freshness_inputs check that reports a stale snapshot is
\* among the truth failures recorded for job j
StaleSnapshotFailure(s, j) ==
  \E i \in DOMAIN s.truth_last_failures[j] :
     s.truth_last_failures[j][i][2] \in
       {"snapshot stale (size changed)", "snapshot stale (mtime changed)",
        "snapshot stale (hash changed)"}

(***************************************************************************)
(* C22: when job_complete fails a gate, the job is left `blocked` if the   *)
(* failure is a dependency failure or a stale-input-snapshot failure and   *)
(* `in_progress` for every other failure, and the command exits 1.         *)
(***************************************************************************)
C22_FailedCompleteReverts ==
  [][\A wi \in Jobs, cascade \in BOOLEAN :
       (/\ complete_outcome(store, wi) \in {"dep_gate_failed", "gate_failed"}
        /\ JobComplete(wi, cascade, FALSE))
       => /\ job_complete(store, wi, cascade, FALSE).rc = 1
          /\ store'.status[wi] =
               IF complete_outcome(store, wi) = "dep_gate_failed"
                  \/ StaleSnapshotFailure(store', wi)
                 THEN "blocked" ELSE "in_progress"]_vars

\* the function of the children's statuses the claim states
C23_ParentStatus(children) ==
  IF \E c \in children : c = "in_progress" THEN "in_progress"
  ELSE IF \E c \in children : c = "blocked" THEN "blocked"
  ELSE IF \A c \in children : c \in {"done", "cancelled"} THEN "done"
  ELSE "planned"

C24_StartStampsOnceAndCounts ==
  [][\A wi \in Jobs, allow_unmet_deps \in BOOLEAN, decision_note \in {"", " "},
        no_sync \in BOOLEAN :
       (/\ store.agreement_status = "agreed"
        /\ store'.progress_log[wi] = "job_start"
        /\ job_start(store, wi, allow_unmet_deps, decision_note, no_sync).rc = 0
        /\ JobStart(wi, allow_unmet_deps, decision_note, no_sync))
       => /\ store'.status[wi] = "in_progress"
          /\ store'.started_at[wi] # 0
          /\ store.started_at[wi] # 0 => store'.started_at[wi] = store.started_at[wi]
          /\ store.status[wi] \in {"planned", "blocked"}
               => store'.iteration[wi] = store.iteration[wi] + 1
          /\ store.status[wi] = "in_progress"
               => store'.iteration[wi] = store.iteration[wi]]_vars

\* a job that was started, was blocked and has been started again: second
\* attempt, first stamp
C24_Witness ==
  /\ store.status["B"] = "in_progress"
  /\ store.progress_log["B"] = "job_start"
  /\ store.iteration["B"] = 2
  /\ store.started_at["B"] = 1

(***************************************************************************)
(* C25: while the agreement flag is not `agreed`, job_start, job_complete, *)
(* workstream_complete and loop_job each end with an error and leave every *)
(* record as it was: no job, workstream or project status changes.         *)
(***************************************************************************)
C25_NoExecutionBeforeAgreement ==
  [][store.agreement_status # "agreed" =>
       /\ \A j \in Jobs, c \in BOOLEAN :
            /\ job_start(store, j, FALSE, "", FALSE).rc = 1
            /\ job_complete(store, j, c, FALSE).rc = 1
       /\ \A w \in WsIds, c \in BOOLEAN : workstream_complete(store, w, c, FALSE).rc = 1
       /\ loop_begin(store, "A", DefaultArgs).loop.exit_code = 1
       /\ (\/ \E j \in Jobs : JobStart(j, FALSE, "", FALSE)
           \/ \E j \in Jobs, c \in BOOLEAN : JobComplete(j, c, FALSE)
           \/ \E w \in WsIds, c \in BOOLEAN : WorkstreamComplete(w, c, FALSE)
           \/ LoopBegin("A", DefaultArgs))
          => store' = store]_vars

\* the agreement was withdrawn while job A was in progress, and loop_job has
\* been refused on A
C25_Witness ==
  /\ store.agreement_status # "agreed"
  /\ store.status["A"] = "in_progress"
  /\ store.ws_status["WS1"] = "in_progress"
  /\ loop.loop_status = "aborted"
  /\ loop.wi = "A"

(***************************************************************************)
(* C26: when reward_eval processes a job whose iteration exceeds           *)
(* max_iterations and whose status is neither done nor cancelled, the job  *)
(* is blocked when reward_eval returns, and the iteration budget check of  *)
(* plan_check has nothing to report about that job.                        *)
(***************************************************************************)
C26_OverBudgetIsBlocked ==
  \A j \in Jobs :
    (store.iteration[j] > max_iterations /\ store.status[j] \notin {"done", "cancelled"})
    => LET t == reward_eval(store)
       IN  /\ t.status[j] = "blocked"
           /\ ~(max_iterations # 0 /\ t.iteration[j] > max_iterations
                /\ t.status[j] # "blocked")

\* the gates of the loop have run reward_eval on job B in its third attempt,
\* and B is blocked
C26_Witness ==
  /\ store.iteration["B"] > max_iterations
  /\ store.status["B"] = "blocked"
  /\ store.reward_last_eval_at["B"]
  /\ loop.wi = "B" /\ loop.last_attempt = 3 /\ loop.gates = "failed"

(***************************************************************************)
(* C27: for every job that has dependencies, in every state of the disk,   *)
(* the freshness_inputs check of truth_eval passes exactly when the        *)
(* comparison of invalidate_downstream between the stored snapshot and the *)
(* current outputs of the dependencies passes.                             *)
(***************************************************************************)
C27_FreshnessAgreesWithInvalidation ==
  \A j \in Jobs :
    depends_on[j] # {} =>
      (check_freshness_inputs(store, j) = <<>>
         <=> compare_snapshot(make_current_input_entries(store, j), store.snapshot[j])[1])

\* the check called name passes for job j
C28_Passes(s, j, name) ==
  CASE name = "exists_nonempty" -> check_exists_nonempty(s, j) = <<>>
    [] name = "freshness" -> check_freshness(s, j) = <<>> /\ check_freshness_inputs(s, j) = <<>>
    [] name = "verification_consistency" -> check_verification_consistency(s, j) = <<>>
    [] OTHER -> TRUE

C29_Record(s, wi) ==
  [status |-> s.status[wi], started_at |-> s.started_at[wi], iteration |-> s.iteration[wi],
   progress_log |-> s.progress_log[wi], completion_promise |-> s.completion_promise[wi],
   truth_last_status |-> s.truth_last_status[wi]]

(***************************************************************************)
(* C29: a job_start that writes the plan of a job, whether it runs to its  *)
(* end or is killed during the write, leaves that plan either with its old *)
(* content or with the new content, never with anything else.              *)
(***************************************************************************)
C29_WriteIsOldOrNew ==
  [][\A wi \in Jobs :
       (JobStart(wi, FALSE, "", FALSE) \/ JobStartKilled(wi))
       => C29_Record(store', wi) \in
            {C29_Record(store, wi),
             C29_Record(job_start(store, wi, FALSE, "", TRUE).store, wi)}]_vars

\* loop_job ends on one of its validation errors: the checks of the plans'
\* statuses, of the dependencies and the override, and of the loop configuration
C30_ValidationError(s, wi, args) ==
  LET unmet == unmet_dependencies(s, wi)
  IN \/ loop_precheck_fails(s, wi)
     \/ unmet # {} /\ ~args.allow_unmet_deps
     \/ unmet # {} /\ Strip(args.decision_note) = ""
     \/ ~loop_config(IF unmet # {} THEN loop_override(s, wi) ELSE s, wi, args).ok

(***************************************************************************)
(* C30: a job_start or a loop_job that aborts on a validation error has    *)
(* modified no job, workstream or project record.                          *)
(***************************************************************************)
C30_AbortLeavesRecordsUntouched ==
  /\ \A j \in UpstreamJobs, a \in BOOLEAN, n \in {"", " ", "why"}, ns \in BOOLEAN :
       job_start(store, j, a, n, ns).rc # 0 => job_start(store, j, a, n, ns).store = store
  /\ \A j \in LoopJobs, args \in LoopArgs :
       C30_ValidationError(store, j, args) => loop_begin(store, j, args).store = store

(***************************************************************************)
(* C31: invalidate is idempotent: run again with the same scope right      *)
(* after a run that marked some job stale, with no file changed in         *)
(* between, it marks no job stale and leaves the status of every job as it *)
(* is.  (A run that marks nothing stale writes nothing.)                   *)
(***************************************************************************)
C31_InvalidateIsIdempotent ==
  [][\A sc \in Jobs \cup {"all"}, ns \in BOOLEAN :
       (/\ \E j \in Jobs : store.status[j] = "done" /\ store'.status[j] = "blocked"
        /\ InvalidateDownstream(sc, ns)) =>
         /\ stale_jobs(store', IF sc = "all" THEN Jobs ELSE downstream_closure(sc)) = {}
         /\ invalidate_downstream(store', sc, ns).status = store'.status]_vars

\* an invalidation has marked a job stale
C31_Witness ==
  \E j \in Jobs : /\ store.status[j] = "blocked"
                  /\ store.progress_log[j] = "invalidate_downstream: done -> blocked"

\* the jobs that may run once the jobs of `scheduled` have: active, kept back
\* by no missing and no inactive unfinished dependency, and every one of their
\* counted dependencies among the scheduled jobs
C32_Ready(br, scheduled) ==
  {wi \in br.active_set \ scheduled :
     /\ br.missing_dependencies[wi] = {}
     /\ br.not_done_dependencies[wi] = {}
     /\ br.indeg[wi] = Cardinality({dep \in scheduled \cap br.active_set : wi \in br.adj[dep]})}

C32_Before(groups, k) == UNION {Elems(groups[i]) : i \in 1..(k - 1)}

C32_FirstOf(seq, n) == SubSeq(seq, 1, IF n < Len(seq) THEN n ELSE Len(seq))

\* C32 as stated: the waves are the ready sets, each cut into chunks of at most
\* the effective limit, the newly ready jobs forming the next ready set, which
\* is cut only after every chunk of the current one
C32_WavesAreChunkedLevels ==
  Orchestrated =>
    LET br == blocked_reasons(scan_jobs(orch))
    IN orch.payload.groups =
         wave_loop_by_levels(first_frontier(br), br.indeg, br,
                             orch.payload.max_parallel_agents.effective, <<>>).waves

(***************************************************************************)
(* C32, amended: every wave is the first `effective limit` jobs, in sorted *)
(* order, of all the jobs that are ready once the earlier waves have run   *)
(* (the rest of the ready set together with the jobs the wave made ready), *)
(* and the sequence ends when no job is ready.                             *)
(***************************************************************************)
C32_WavesAreFirstOfReady ==
  Orchestrated =>
    LET br == blocked_reasons(scan_jobs(orch))
        groups == orch.payload.groups
        limit == orch.payload.max_parallel_agents.effective
    IN /\ \A k \in DOMAIN groups :
            groups[k] = C32_FirstOf(Sorted(C32_Ready(br, C32_Before(groups, k))), limit)
       /\ C32_Ready(br, C32_Before(groups, Len(groups) + 1)) = {}

\* limit 1, A and C ready, B waiting for A: B runs before C
C32_Witness ==
  /\ Orchestrated
  /\ orch.depends_on = <<<<>>, <<"A">>, <<>>>>
  /\ orch.status = <<"planned", "planned", "planned">>
  /\ orch.payload.max_parallel_agents.effective = 1
  /\ orch.payload.groups = <<<<"A">>, <<"B">>, <<"C">>>>

\* a run of loop_job has ended whose attempts were numbered from 1, whose runner
\* exited 0 every time and which never reached job_complete
C33_EndedUncompleted ==
  /\ loop.pc = "idle"
  /\ loop.invocations > 0
  /\ loop.last_attempt = loop.invocations
  /\ loop.result_exit_code = 0
  /\ loop.loop_status \notin {"completed", "error"}

(***************************************************************************)
(* C33: a loop without --resume on a planned job that was never started    *)
(* numbers its attempts from 1; when the runner exits 0 on every attempt   *)
(* and completion is never reached, and neither a cancel request nor the   *)
(* walltime cap ends the run, the run makes exactly as many attempts as    *)
(* the attempt cap N and ends blocked/max_iterations with exit code 1 and  *)
(* last attempt N, in the loop and in the job plan.                        *)
(***************************************************************************)
C33_CapReachedThenBlocked ==
  /\ [][\A j \in LoopJobs, args \in LoopArgs :
          (/\ store.status[j] = "planned" /\ store.iteration[j] = 0 /\ ~args.resume
           /\ LoopBegin(j, args) /\ loop'.pc = "top")
          => loop'.attempt = 1 /\ loop'.invocations = 0]_vars
  /\ [](C33_EndedUncompleted /\ loop.stop_reason \notin {"cancel", "timeout"}
          => /\ loop.loop_status = "blocked"
             /\ loop.stop_reason = "max_iterations"
             /\ loop.exit_code = 1
             /\ loop.max_loops > 0
             /\ loop.invocations = loop.max_loops
             /\ loop.last_attempt = loop.max_loops
             /\ store.loop_status[loop.wi] = "blocked"
             /\ store.loop_stop_reason[loop.wi] = "max_iterations"
             /\ store.loop_last_attempt[loop.wi] = loop.max_loops)

\* two attempts under the cap of 2, then blocked/max_iterations
C33_Witness ==
  /\ C33_EndedUncompleted
  /\ loop.max_loops = 2
  /\ loop.invocations = 2
  /\ loop.loop_status = "blocked"
  /\ loop.stop_reason = "max_iterations"
  /\ loop.exit_code = 1

(***************************************************************************)
(* C34: in every state reached by job_start, job_complete, loop_job and    *)
(* invalidate_downstream, every dependency of a done job is done.          *)
(***************************************************************************)
C34_DoneJobsHaveDoneDependencies ==
  \A j \in Jobs : store.status[j] = "done" =>
    \A d \in depends_on[j] : store.status[d] = "done"

\* between s and t no job but j changed its status, except downstream jobs of j
\* that went from done to blocked
C35_OnlyOwnStatus(s, t, j) ==
  \A k \in Jobs \ {j} :
    t.status[k] # s.status[k] =>
      /\ k \in downstream_closure(j)
      /\ s.status[k] = "done"
      /\ t.status[k] = "blocked"

C35_OwnStatusOrBudget(s, t, j) ==
  \A k \in Jobs \ {j} :
    t.status[k] # s.status[k] =>
      \/ /\ k \in downstream_closure(j)
         /\ s.status[k] = "done"
         /\ t.status[k] = "blocked"
      \/ /\ s.iteration[k] > max_iterations
         /\ s.status[k] \notin {"done", "cancelled"}
         /\ t.status[k] = "blocked"

C38_OverBudgetJobsAreBlocked ==
  loop.pc = "idle" =>
    \A j \in Jobs : store.iteration[j] > max_iterations => store.status[j] = "blocked"

(***************************************************************************)
(* C39: in every state reached by the lifecycle, gating and invalidation   *)
(* commands, the completion time stamp of a job is set exactly when the    *)
(* job is done.                                                            *)
(***************************************************************************)
C39_CompletedAtIffDone ==
  \A j \in Jobs : store.completed_at[j] <=> store.status[j] = "done"

(***************************************************************************)
(* C40: whatever the statuses of the jobs, the workstream and project      *)
(* statuses that plan_sync writes pass plan_check: no rollup mismatch, no  *)
(* done workstream with a job that is not done, no done project with a     *)
(* workstream that is not done.                                            *)
(***************************************************************************)
C40_SyncedPlansPassPlanCheck ==
  LET t == sync_project_plans(store)
  IN /\ ~rollup_mismatch(t)
     /\ \A w \in WsIds : t.ws_status[w] = "done" => \A j \in WsJobs[w] : t.status[j] = "done"
     /\ t.proj_status = "done" => \A w \in WsIds : t.ws_status[w] = "done"

(***************************************************************************)
(* C37: when a loop_job process has exited, the loop status it leaves in   *)
(* the job plan is not active: once the process has written active, every  *)
(* exit persists completed, blocked, stopped or error.                     *)
(***************************************************************************)
C37_ExitedLoopIsNotActive ==
  (loop.pc = "idle" /\ loop.wi \in Jobs) => store.loop_status[loop.wi] # "active"

(***************************************************************************)
(* C36: when two commands run at once on two different jobs of the same    *)
(* wave, no field that one of them writes to a record is lost or           *)
(* overwritten with a stale value by the other: after job_complete on j    *)
(* and job_start on k have both run, the status, the iteration and         *)
(* started_at of k, which job_start wrote, are those that the two commands *)
(* leave when they run one after the other, in one order or the other.     *)
(***************************************************************************)
C36_Started(s, k) == <<s.status[k], s.iteration[k], s.started_at[k]>>

C36_NoWriteIsLost ==
  [][\A j, k \in Jobs, ns \in BOOLEAN :
       RaceCompleteStart(j, k, ns) =>
         C36_Started(store', k) \in
           {C36_Started(job_start(job_complete(store, j, FALSE, FALSE).store,
                                  k, FALSE, "", ns).store, k),
            C36_Started(job_complete(job_start(store, k, FALSE, "", ns).store,
                                     j, FALSE, FALSE).store, k)}]_vars

====
